---------------------------- MODULE Spec2Model ----------------------------
(***************************************************************************)
(* Model of the pair-binning, distortion-matrix and Wick engines of        *)
(* py/picca/xcf.py and of the reduction of bin/do_dmat.py.                 *)
(*                                                                         *)
(* Numbers.  The code computes with IEEE binary64.  Separations, window    *)
(* edges and the bin index expression are modelled in a binary floating    *)
(* point format with Prec significand bits and round-to-nearest-even: a    *)
(* float is the integer number of quanta 2^-Prec it holds.     Weights,   *)
(* field values and redshifts are small integers and the weighted sums     *)
(* are exact; quotients are kept as fractions <<numerator, denominator>>.  *)
(***************************************************************************)
EXTENDS Integers, Sequences, FiniteSets, TLC

VARIABLES
  mode,        \* which engine this run executes
  pc,          \* "loop", "done" (returned) or "raised" (an exception escaped)
  ndone,       \* deltas the per-delta loop has gone through
  counter,     \* the shared progress counter (counter.value)
  delta,       \* the delta of the last pass of the loop, as the pass met it
  \* locals of compute_xi / xcf1d
  xi, weights, r_par, r_trans, z,
  num_pairs,   \* per-bin array in compute_xi / xcf1d, a scalar elsewhere
  \* locals of compute_dmat / compute_metal_dmat
  reject,      \* the module global, in quarters
  rand,        \* what np.random.rand returned in the last pass, in quarters
  dmat, weights_dmat, r_par_eff, r_trans_eff, z_eff, weight_eff,
  num_pairs_used,
  added,       \* the pairs (pixel, thingid of the object) that the last pass
               \* added to weights_dmat (.data) and to weight_eff (.model)
  neighbours,  \* delta.neighbours after the last pass
  \* the arrays fill_wickT1234 and fill_wickT56 add to, each as it lies in
  \* memory: wAll, num_pairs_wick and the matrices T1 .. T6 in row-major order
  wick,
  max_diagram,    \* the module global
  bounds_checked, \* whether the build of the @jit functions checks indices
  \* bin/do_dmat.py
  nproc,       \* args.nproc
  dm,          \* the list pool.map has gathered so far
  ret,         \* the tuple the engine returned
  \* the pool of worker processes
  data,        \* the deltas of each healpix
  cpu_data,    \* the groups of healpix keys, one per task of pool.map
  lock,        \* 0, or the task that holds the lock
  task,        \* each task of pool.map: where it is and its locals
  nb,          \* the attribute neighbours of each delta of data
  writes,      \* the attribute writes on shared entities so far
  rng,         \* how many draws each process of the pool has made
  \* wickT
  cfWick_given, \* whether the module global cfWick is an array, not None
  calls,       \* the calls of fill_wickT56 that wickT has made so far
  dneighs      \* d1.dneighs of the forest d1 that wickT handled last

\* ------------------------------------------------------------------------
\* Bounds of the model
\* ------------------------------------------------------------------------
Prec == 4
MaxDeltas == 2
\* the healpix pixels of a pool run
NumHealpix == 3

\* ------------------------------------------------------------------------
\* Generic helpers
\* ------------------------------------------------------------------------
RECURSIVE Pow2(_)
Pow2(n) == IF n <= 0 THEN 1 ELSE 2 * Pow2(n - 1)

RECURSIVE NumBits(_)
NumBits(x) == IF x <= 0 THEN 0 ELSE 1 + NumBits(x \div 2)

Abs(x) == IF x < 0 THEN -x ELSE x

RECURSIVE SumSeq(_)
SumSeq(s) == IF s = <<>> THEN 0 ELSE Head(s) + SumSeq(Tail(s))

RECURSIVE SeqOfSet(_)
SeqOfSet(S) ==
  IF S = {} THEN <<>>
  ELSE LET m == CHOOSE x \in S : \A y \in S : x <= y
       IN <<m>> \o SeqOfSet(S \ {m})

RECURSIVE GCD(_, _)
GCD(a, b) == IF b = 0 THEN Abs(a) ELSE GCD(b, a % b)

\* ------------------------------------------------------------------------
\* Floating point: the arithmetic of the binning expressions
\* ------------------------------------------------------------------------
FracBits == Prec
One == Pow2(FracBits)

Sign(x) == IF x < 0 THEN -1 ELSE 1

\* the spacing of the floats around t quanta
Spacing(t) == IF t < Pow2(Prec) THEN 1 ELSE Pow2(NumBits(t) - Prec)

\* p/q lies between the floats lo and lo + s: the nearer one, ties to even
RoundBetween(p, q, s, lo) ==
  IF 2 * p < (2 * lo + s) * q THEN lo
  ELSE IF 2 * p > (2 * lo + s) * q THEN lo + s
  ELSE IF (lo \div s) % 2 = 0 THEN lo ELSE lo + s

RoundAt(p, q, s) == RoundBetween(p, q, s, (p \div (q * s)) * s)

\* nearest float to the non-negative rational p/q (in quanta), q > 0
RoundPos(p, q) == RoundAt(p, q, Spacing(p \div q))

\* nearest float to the rational p/q (in quanta), q > 0
RoundRat(p, q) == Sign(p) * RoundPos(Abs(p), q)

fl(x) == RoundRat(x, 1)
fadd(a, b) == fl(a + b)
fsub(a, b) == fl(a - b)
fmul(a, b) == RoundRat(a * b, One)
fdiv(a, b) == RoundRat(Sign(b) * a * One, Abs(b))
\* float times a Python int (the int is converted exactly)
fmulint(a, n) == fl(a * n)
\* ndarray.astype(int): truncation toward zero
astype_int(a) == Sign(a) * (Abs(a) \div One)

\* ------------------------------------------------------------------------
\* Run configuration (module globals of xcf.py, set by the driver scripts)
\* ------------------------------------------------------------------------
num_bins_r_par == 2
num_bins_r_trans == 2
num_model_bins_r_par == 4
num_model_bins_r_trans == 2
r_par_min == -2 * One
r_par_max == 2 * One
r_trans_max == 2 * One

NumBins == num_bins_r_par * num_bins_r_trans
NumModelBins == num_model_bins_r_par * num_model_bins_r_trans
Bins == 0 .. (NumBins - 1)
ModelBins == 0 .. (NumModelBins - 1)

\* ------------------------------------------------------------------------
\* Input data: forests (deltas), objects, angles
\* ------------------------------------------------------------------------
\* positions of a forest's pixels on the wavelength grid
PixPos == {0, 1, 2}

\* io.read_deltas derives the per-pixel geometry from log_lambda; the weight
\* and the field value of a pixel are those of the spectrum at that position
PixZ(p) == 2 * (p + 1)
PixRComov(p) == (4 + p) * One
PixWeight(p) == IF p = 1 THEN 2 ELSE 1
PixDelta(p) == IF p = 0 THEN 1 ELSE -1

\* pixel positions of a forest, ascending: one or two pixels
PosSeqs(sizes) ==
  {SeqOfSet(S) : S \in {T \in SUBSET PixPos : Cardinality(T) \in sizes}}

MakeForest(pos, tid, zq) ==
  [thingid |-> tid, z_qso |-> zq,
   log_lambda |-> pos,
   z |-> [k \in DOMAIN pos |-> PixZ(pos[k])],
   r_comov |-> [k \in DOMAIN pos |-> PixRComov(pos[k])],
   dist_m |-> [k \in DOMAIN pos |-> PixRComov(pos[k])],
   weights |-> [k \in DOMAIN pos |-> PixWeight(pos[k])],
   delta |-> [k \in DOMAIN pos |-> PixDelta(pos[k])]]

\* objects: io.read_objects derives weight and distances from z_qso
Obj1 == [thingid |-> 1, z_qso |-> 2, r_comov |-> 4 * One, dist_m |-> 4 * One, weights |-> 1]
Obj2 == [thingid |-> 2, z_qso |-> 6, r_comov |-> 6 * One, dist_m |-> 6 * One, weights |-> 2]

\* np.cos(ang/2), np.sin(ang/2) of the angle between a delta and an object
AngA == [cos_half |-> One,     sin_half |-> One \div 16]
AngB == [cos_half |-> One - 1, sin_half |-> One \div 8]
AngC == [cos_half |-> One,     sin_half |-> One \div 4]

\* sky positions of a delta: its angles to Obj1 and to Obj2
SkyPos == {<<AngA, AngB>>, <<AngB, AngC>>, <<AngC, AngA>>, <<AngB, AngB>>}

\* a neighbour: an object together with its angle to the delta
Neighbour(o, a) ==
  [thingid |-> o.thingid, z_qso |-> o.z_qso, r_comov |-> o.r_comov,
   dist_m |-> o.dist_m, weights |-> o.weights,
   cos_half |-> a.cos_half, sin_half |-> a.sin_half]

\* neighbour lists: any of the objects, in catalogue order
NeighbourListsAt(sky) ==
  UNION {{<<>>, <<Neighbour(Obj1, s[1])>>, <<Neighbour(Obj2, s[2])>>,
          <<Neighbour(Obj1, s[1]), Neighbour(Obj2, s[2])>>} : s \in sky}
NeighbourLists == NeighbourListsAt(SkyPos)

\* a delta of data[healpix] as fill_neighs leaves it
WithNeighbours(f, nbs) ==
  [thingid |-> f.thingid, z_qso |-> f.z_qso, log_lambda |-> f.log_lambda,
   z |-> f.z, r_comov |-> f.r_comov, dist_m |-> f.dist_m,
   weights |-> f.weights, delta |-> f.delta, neighbours |-> nbs]

\* np.random.rand draws from [0, 1): 0.0 and 0.75, in quarters
DrawVals == {0, 3}
\* reject = 0, 0.5 and 1, in quarters
RejectVals == {0, 2, 4}

DrawSeqs(n) == [1 .. n -> DrawVals]

XiDeltas ==
  {WithNeighbours(MakeForest(pos, 3, 8), nbs) :
     pos \in PosSeqs({1, 2}), nbs \in NeighbourLists}

\* forests of the distortion matrix: the continuum fit has two pixels or more
DmatForests ==
  {WithNeighbours(MakeForest(pos, 3, 8), nbs) :
     pos \in PosSeqs({2, 3}),
     nbs \in NeighbourListsAt({<<AngC, AngA>>, <<AngB, AngB>>})}

\* the order of the continuum fit, an attribute of the delta: 0 or 1
Orders == {0, 1}
WithOrder(d, o) ==
  [thingid |-> d.thingid, z_qso |-> d.z_qso, log_lambda |-> d.log_lambda,
   z |-> d.z, r_comov |-> d.r_comov, dist_m |-> d.dist_m,
   weights |-> d.weights, delta |-> d.delta, neighbours |-> d.neighbours,
   order |-> o]

\* the deltas of compute_dmat: of order 1, and the forests of the pixels 1
\* and 2 also of order 0
DmatDeltas ==
  {WithOrder(p[1], p[2]) :
     p \in {q \in DmatForests \X Orders : q[2] = 1 \/ q[1].log_lambda = <<1, 2>>}}

\* ------------------------------------------------------------------------
\* Pair geometry, selection window and bin indices
\* ------------------------------------------------------------------------
RPar(r_comov1, r_comov2, cos_half) == fmul(fsub(r_comov1, r_comov2), cos_half)
RTrans(dist_m1, dist_m2, sin_half) == fmul(fadd(dist_m1, dist_m2), sin_half)

\* a window closed at r_par_min: what `>=` in place of `>` would select
WindowClosedAtRParMin(rp, rt) ==
  (rp >= r_par_min) /\ (rp < r_par_max) /\ (rt < r_trans_max)

Window(rp, rt) ==
  (rp > r_par_min) /\ (rp < r_par_max) /\ (rt < r_trans_max)

BinsRPar(rp, n) ==
  astype_int(fmulint(fdiv(fsub(rp, r_par_min), fsub(r_par_max, r_par_min)), n))
BinsRTrans(rt, n) == astype_int(fmulint(fdiv(rt, r_trans_max), n))

\* the data bin taken with the model grid's count along r_par
DataBinOnModelGrid(rp, rt) ==
  BinsRTrans(rt, num_bins_r_trans)
    + num_bins_r_trans * BinsRPar(rp, num_model_bins_r_par)

DataBin(rp, rt) ==
  BinsRTrans(rt, num_bins_r_trans)
    + num_bins_r_trans * BinsRPar(rp, num_bins_r_par)
ModelBin(rp, rt) ==
  BinsRTrans(rt, num_model_bins_r_trans)
    + num_model_bins_r_trans * BinsRPar(rp, num_model_bins_r_par)

\* the entry of pixel i and object j in the 2-D arrays of a forest f and a
\* list of objects: separations, mask, weights, bins
PairRecord(f, o, i, j, rp, rt) ==
  [i |-> i, j |-> j, thingid |-> o.thingid,
   r_par |-> rp, r_trans |-> rt, w |-> Window(rp, rt),
   z |-> (f.z[i] + o.z_qso) \div 2,
   weights12 |-> f.weights[i] * o.weights,
   delta_times_weight |-> (f.weights[i] * f.delta[i]) * o.weights,
   bins |-> DataBin(rp, rt), model_bins |-> ModelBin(rp, rt)]

PairAt(f, o, i, j) ==
  PairRecord(f, o, i, j, RPar(f.r_comov[i], o.r_comov, o.cos_half),
             RTrans(f.dist_m[i], o.dist_m, o.sin_half))

\* the 2-D arrays in row-major order: pixel i runs slowest
AllPairs(f, nbs) ==
  [k \in 1 .. (Len(f.r_comov) * Len(nbs)) |->
     PairAt(f, nbs[((k - 1) % Len(nbs)) + 1],
            ((k - 1) \div Len(nbs)) + 1, ((k - 1) % Len(nbs)) + 1)]

InWindow(p) == p.w

\* the arrays after the mask: a[w]
WindowPairs(f, nbs) == SelectSeq(AllPairs(f, nbs), InWindow)

\* np.bincount(bins, weights=wts): entry b of the result; its length is
\* 1 + max(bins), 0 for no input
BinSum(bins, wts, b) ==
  SumSeq([k \in DOMAIN bins |-> IF bins[k] = b THEN wts[k] ELSE 0])
MaxOf(S) == CHOOSE m \in S : \A x \in S : x <= m
BincountLen(bins) ==
  IF bins = <<>> THEN 0 ELSE 1 + MaxOf({bins[k] : k \in DOMAIN bins})
Bincount(bins, wts, n) == [b \in 0 .. (n - 1) |-> BinSum(bins, wts, b)]

\* a[mask]
SelectSeq2(s, keep) ==
  [k \in 1 .. Cardinality({n \in DOMAIN s : keep[n]}) |->
     s[CHOOSE n \in DOMAIN s :
         keep[n] /\ Cardinality({m \in 1 .. n : keep[m]}) = k]]

\* fractions: the value of n / d; d = 0 is the nan or inf of a division by zero
Frac(n, d) == IF d = 0 THEN <<n, 0>> ELSE <<n \div GCD(n, d), d \div GCD(n, d)>>
Whole(n) == <<n, 1>>
FracAdd(a, b) == Frac(a[1] * b[2] + b[1] * a[2], a[2] * b[2])

ZeroArr(n) == [b \in 0 .. (n - 1) |-> 0]
ZeroFracArr(n) == [b \in 0 .. (n - 1) |-> Whole(0)]

\* a[:len(rebin)] = rebin: the slice is assigned, not added to
AssignRebin(a, rebin) ==
  [b \in DOMAIN a |-> IF b \in DOMAIN rebin THEN rebin[b] ELSE a[b]]

\* a[:len(rebin)] += rebin, for len(rebin) <= len(a)
AddRebin(a, rebin) ==
  [b \in DOMAIN a |-> IF b \in DOMAIN rebin THEN a[b] + rebin[b] ELSE a[b]]
AddFracArr(a, add) == [b \in DOMAIN a |-> FracAdd(a[b], add[b])]

\* ------------------------------------------------------------------------
\* compute_xi_forest_pairs
\* ------------------------------------------------------------------------
\* the six bincounts, the last one counting every pair of the masked arrays
XiRebinEveryPair(prs, bins) ==
  [len |-> BincountLen(bins),
   rebin_weight |->
     Bincount(bins, [k \in DOMAIN prs |-> prs[k].weights12], BincountLen(bins)),
   rebin_xi |->
     Bincount(bins, [k \in DOMAIN prs |-> prs[k].delta_times_weight],
              BincountLen(bins)),
   rebin_r_par |->
     Bincount(bins, [k \in DOMAIN prs |-> prs[k].r_par * prs[k].weights12],
              BincountLen(bins)),
   rebin_r_trans |->
     Bincount(bins, [k \in DOMAIN prs |-> prs[k].r_trans * prs[k].weights12],
              BincountLen(bins)),
   rebin_z |->
     Bincount(bins, [k \in DOMAIN prs |-> prs[k].z * prs[k].weights12],
              BincountLen(bins)),
   rebin_num_pairs |->
     Bincount(bins, [k \in DOMAIN prs |-> 1], BincountLen(bins))]

\* the six bincounts over the masked arrays prs
XiRebin(prs, bins) ==
  [len |-> BincountLen(bins),
   rebin_weight |->
     Bincount(bins, [k \in DOMAIN prs |-> prs[k].weights12], BincountLen(bins)),
   rebin_xi |->
     Bincount(bins, [k \in DOMAIN prs |-> prs[k].delta_times_weight],
              BincountLen(bins)),
   rebin_r_par |->
     Bincount(bins, [k \in DOMAIN prs |-> prs[k].r_par * prs[k].weights12],
              BincountLen(bins)),
   rebin_r_trans |->
     Bincount(bins, [k \in DOMAIN prs |-> prs[k].r_trans * prs[k].weights12],
              BincountLen(bins)),
   rebin_z |->
     Bincount(bins, [k \in DOMAIN prs |-> prs[k].z * prs[k].weights12],
              BincountLen(bins)),
   rebin_num_pairs |->
     Bincount(bins, [k \in DOMAIN prs |-> IF prs[k].weights12 > 0 THEN 1 ELSE 0],
              BincountLen(bins))]

BinsOf(prs) == [k \in DOMAIN prs |-> prs[k].bins]
ModelBinsOf(prs) == [k \in DOMAIN prs |-> prs[k].model_bins]

XiOfPairs(prs) == XiRebin(prs, BinsOf(prs))

compute_xi_forest_pairs(f, nbs) == XiOfPairs(WindowPairs(f, nbs))

\* ------------------------------------------------------------------------
\* compute_xi
\* ------------------------------------------------------------------------
xi_vars == <<xi, weights, r_par, r_trans, z>>
dmat_vars == <<dmat, weights_dmat, r_par_eff, r_trans_eff, z_eff, weight_eff>>
rand_vars == <<rand, num_pairs_used, added>>
cfg_vars == <<mode, reject, max_diagram, bounds_checked, nproc>>
pool_vars == <<data, cpu_data, lock, task, nb, writes, rng>>
wickT_vars == <<cfWick_given, calls, dneighs>>
vars == <<cfg_vars, pool_vars, wickT_vars, pc, ndone, counter, delta, neighbours, num_pairs,
          xi_vars, dmat_vars, rand_vars, wick, dm, ret>>

XiTable == [d \in XiDeltas |-> compute_xi_forest_pairs(d, d.neighbours)]

\* the additions without the slices, xi += rebin_xi: they raise unless the
\* bincounts have the length of the accumulators
XiAccumulateWhole(d, r) ==
  IF r.len # NumBins
    THEN /\ pc' = "raised"
         /\ neighbours' = d.neighbours
         /\ UNCHANGED <<xi_vars, num_pairs>>
    ELSE /\ xi' = AddRebin(xi, r.rebin_xi)
         /\ weights' = AddRebin(weights, r.rebin_weight)
         /\ r_par' = AddRebin(r_par, r.rebin_r_par)
         /\ r_trans' = AddRebin(r_trans, r.rebin_r_trans)
         /\ z' = AddRebin(z, r.rebin_z)
         /\ num_pairs' = AddRebin(num_pairs, r.rebin_num_pairs)
         /\ neighbours' = "None"
         /\ pc' = pc

\* the six slice additions of the loop body, r being what
\* compute_xi_forest_pairs returned
XiAccumulate(d, r) ==
  IF r.len > NumBins
    THEN \* xi[:len(rebin_xi)] += rebin_xi: the shapes differ, ValueError
         /\ pc' = "raised"
         /\ neighbours' = d.neighbours
         /\ UNCHANGED <<xi_vars, num_pairs>>
    ELSE /\ xi' = AddRebin(xi, r.rebin_xi)
         /\ weights' = AddRebin(weights, r.rebin_weight)
         /\ r_par' = AddRebin(r_par, r.rebin_r_par)
         /\ r_trans' = AddRebin(r_trans, r.rebin_r_trans)
         /\ z' = AddRebin(z, r.rebin_z)
         /\ num_pairs' = AddRebin(num_pairs, r.rebin_num_pairs)
         /\ neighbours' = "None"
         /\ pc' = pc

\* one pass of the loop body for the delta d
ComputeXiDelta(d) ==
  /\ mode = "compute_xi" /\ pc = "loop" /\ ndone < MaxDeltas
  /\ counter' = counter + 1
  /\ ndone' = ndone + 1
  /\ delta' = d
  /\ IF Len(d.neighbours) # 0
       THEN XiAccumulate(d, XiTable[d])
       ELSE /\ neighbours' = "None"
            /\ UNCHANGED <<pc, xi_vars, num_pairs>>
  /\ UNCHANGED <<cfg_vars, pool_vars, wickT_vars,
                 dmat_vars, rand_vars, wick, dm, ret>>

\* a mask that lets the bins without weight through
NormMaskAll(wsum) == wsum >= 0

\* the mask of the final normalisation
NormMask(wsum) == wsum > 0

\* a[w] /= weights[w], done twice
NormaliseTwice(a, wts) ==
  [b \in DOMAIN a |->
     IF NormMask(wts[b]) THEN Frac(a[b], wts[b] * wts[b]) ELSE Whole(a[b])]

\* a[w] /= weights[w]
Normalise(a, wts) ==
  [b \in DOMAIN a |-> IF NormMask(wts[b]) THEN Frac(a[b], wts[b]) ELSE Whole(a[b])]

ComputeXiReturn ==
  /\ mode = "compute_xi" /\ pc = "loop"
  /\ ret' = [weights |-> weights, xi |-> Normalise(xi, weights),
             r_par |-> Normalise(r_par, weights),
             r_trans |-> Normalise(r_trans, weights),
             z |-> Normalise(z, weights), num_pairs |-> num_pairs]
  /\ pc' = "done"
  /\ UNCHANGED <<cfg_vars, pool_vars, wickT_vars,
                 ndone, counter, delta, neighbours, num_pairs, xi_vars,
                 dmat_vars, rand_vars, wick, dm>>

\* ------------------------------------------------------------------------
\* xcf1d
\* ------------------------------------------------------------------------
\* deltas of xcf1d: on the line of sight of Obj1 or of no object
Xcf1dDeltas ==
  {WithNeighbours(MakeForest(pos, tid, 8), <<>>) :
     pos \in PosSeqs({1, 2}), tid \in {1, 3}}

\* objs[healpix]
Objs == {Obj1, Obj2}

\* one pass of the loop body for the delta d
Xcf1dDelta(d) ==
  /\ mode = "xcf1d" /\ pc = "loop" /\ ndone < MaxDeltas
  /\ ndone' = ndone + 1
  /\ delta' = d
  /\ IF {q \in Objs : q.thingid = d.thingid} = {}
       THEN pc' = pc       \* continue
       ELSE pc' = "raised" \* fast_xcf is no name of the module: NameError
  /\ UNCHANGED <<cfg_vars, pool_vars, wickT_vars,
                 counter, neighbours, num_pairs, xi_vars, dmat_vars,
                 rand_vars, wick, dm, ret>>

Xcf1dReturn ==
  /\ mode = "xcf1d" /\ pc = "loop"
  /\ ret' = [weights |-> weights, xi |-> Normalise(xi, weights),
             r_par |-> Normalise(r_par, weights),
             z |-> Normalise(z, weights), num_pairs |-> num_pairs]
  /\ pc' = "done"
  /\ UNCHANGED <<cfg_vars, pool_vars, wickT_vars,
                 ndone, counter, delta, neighbours, num_pairs, xi_vars,
                 dmat_vars, rand_vars, wick, dm>>

\* ------------------------------------------------------------------------
\* compute_dmat_forest_pairs
\* ------------------------------------------------------------------------
\* the continuum-fit moments of a forest, over the common denominator
\* sum_weights1: log_lambda_minus_mean1[i] = LogLambdaMinusMean(f, i) / sw and
\* sum_weights_square_log_lambda_minus_mean1 = SumWeightsSquare(f) / sw^2
SumWeights(f) == SumSeq(f.weights)
LogLambdaMinusMean(f, i) ==
  f.log_lambda[i] * SumWeights(f)
    - SumSeq([k \in DOMAIN f.weights |-> f.weights[k] * f.log_lambda[k]])
SumWeightsSquare(f) ==
  SumSeq([k \in DOMAIN f.weights |->
            f.weights[k] * LogLambdaMinusMean(f, k) * LogLambdaMinusMean(f, k)])

\* eta2 summed without the pixels' weights
Eta2Unweighted(f, i1) == SumWeightsSquare(f)

\* what pixel i1 adds to eta2, and to eta4 times log_lambda_minus_mean1[i],
\* over the common denominator SumWeights * SumWeightsSquare
Eta2Weight(f, i1) == f.weights[i1] * SumWeightsSquare(f)
Eta4Weight(f, i1, i) ==
  f.weights[i1] * LogLambdaMinusMean(f, i1) * LogLambdaMinusMean(f, i) * SumWeights(f)

\* (eta2[j + n2*u] + eta4[j + n2*u]*log_lambda_minus_mean1[i]) times the
\* common denominator
EtaSum(f, prs, j, u, i) ==
  SumSeq([k \in DOMAIN prs |->
    IF prs[k].j = j /\ prs[k].model_bins = u
      THEN Eta2Weight(f, prs[k].i) + Eta4Weight(f, prs[k].i, i)
      ELSE 0])

\* what the pair p adds to dmat[idx], times the common denominator
DmatPairAdd(f, prs, p, idx) ==
  (IF p.model_bins + NumModelBins * p.bins = idx
     THEN p.weights12 * SumWeights(f) * SumWeightsSquare(f) ELSE 0)
  - SumSeq([n \in 1 .. NumModelBins |->
      IF (\E k \in DOMAIN prs : prs[k].model_bins = n - 1)
         /\ (n - 1) + NumModelBins * p.bins = idx
        THEN p.weights12 * EtaSum(f, prs, p.j, n - 1, p.i)
        ELSE 0])

DmatAdd(f, prs, idx) ==
  Frac(SumSeq([k \in DOMAIN prs |-> DmatPairAdd(f, prs, prs[k], idx)]),
       SumWeights(f) * SumWeightsSquare(f))

\* the increments of one call on the masked arrays prs; raised is "model" or
\* "data" when the slice addition of a bincount longer than its accumulator
\* raises ValueError
DmatRebin(f, prs, bins, model_bins) ==
  [raised |-> IF BincountLen(model_bins) > NumModelBins THEN "model"
              ELSE IF BincountLen(bins) > NumBins THEN "data" ELSE "no",
   pairs |-> {<<prs[k].i, prs[k].thingid>> : k \in DOMAIN prs},
   r_par_eff |->
     Bincount(model_bins, [k \in DOMAIN prs |-> prs[k].weights12 * prs[k].r_par],
              BincountLen(model_bins)),
   r_trans_eff |->
     Bincount(model_bins, [k \in DOMAIN prs |-> prs[k].weights12 * prs[k].r_trans],
              BincountLen(model_bins)),
   z_eff |->
     Bincount(model_bins, [k \in DOMAIN prs |-> prs[k].weights12 * prs[k].z],
              BincountLen(model_bins)),
   weight_eff |->
     Bincount(model_bins, [k \in DOMAIN prs |-> prs[k].weights12],
              BincountLen(model_bins)),
   weights_dmat |->
     Bincount(bins, [k \in DOMAIN prs |-> prs[k].weights12], BincountLen(bins)),
   dmat |-> [idx \in 0 .. (NumBins * NumModelBins - 1) |-> DmatAdd(f, prs, idx)]]

DmatOfPairs(f, prs) == DmatRebin(f, prs, BinsOf(prs), ModelBinsOf(prs))

compute_dmat_forest_pairs(f, nbs) == DmatOfPairs(f, WindowPairs(f, nbs))

\* ------------------------------------------------------------------------
\* compute_dmat
\* ------------------------------------------------------------------------
\* the call passes the arrays of the delta, not its order
DmatTable ==
  [d \in DmatForests |-> compute_dmat_forest_pairs(d, d.neighbours)]

NoneAdded == [data |-> {}, model |-> {}]

\* w = np.random.rand(len(delta1.neighbours)) > reject
RandomMask(draws) == [k \in DOMAIN draws |-> draws[k] > reject]
MaskSum(w) == Cardinality({k \in DOMAIN w : w[k]})

\* the accumulations of the call, c being their increments
DmatAccumulate(d, c) ==
  /\ added' = [data |-> IF c.raised = "no" THEN c.pairs ELSE {},
               model |-> IF c.raised = "model" THEN {} ELSE c.pairs]
  /\ IF c.raised = "model"
       THEN UNCHANGED <<r_par_eff, r_trans_eff, z_eff, weight_eff>>
       ELSE /\ r_par_eff' = AddRebin(r_par_eff, c.r_par_eff)
            /\ r_trans_eff' = AddRebin(r_trans_eff, c.r_trans_eff)
            /\ z_eff' = AddRebin(z_eff, c.z_eff)
            /\ weight_eff' = AddRebin(weight_eff, c.weight_eff)
  /\ IF c.raised = "no"
       THEN /\ weights_dmat' = AddRebin(weights_dmat, c.weights_dmat)
            /\ dmat' = AddFracArr(dmat, c.dmat)
            /\ neighbours' = "None"
            /\ pc' = pc
       ELSE /\ pc' = "raised"
            /\ neighbours' = d.neighbours
            /\ UNCHANGED <<weights_dmat, dmat>>

\* one pass of the loop body for the delta d, np.random.rand returning draws
ComputeDmatDelta(d, draws) ==
  /\ mode = "compute_dmat" /\ pc = "loop" /\ ndone < MaxDeltas
  /\ counter' = counter + 1
  /\ ndone' = ndone + 1
  /\ delta' = d
  /\ rand' = draws
  /\ IF MaskSum(RandomMask(draws)) = 0
       THEN \* continue
            /\ neighbours' = d.neighbours
            /\ added' = NoneAdded
            /\ UNCHANGED <<pc, num_pairs, num_pairs_used, dmat_vars>>
       ELSE /\ num_pairs' = num_pairs + Len(d.neighbours)
            /\ num_pairs_used' = num_pairs_used + MaskSum(RandomMask(draws))
            /\ DmatAccumulate(d,
                 DmatTable[WithNeighbours(d, SelectSeq2(d.neighbours, RandomMask(draws)))])
  /\ UNCHANGED <<cfg_vars, pool_vars, wickT_vars,
                 xi_vars, wick, dm, ret>>

\* dmat.reshape(data bins, model bins) and the returned tuple
ComputeDmatReturn ==
  /\ mode = "compute_dmat" /\ pc = "loop"
  /\ ret' = [weights_dmat |-> weights_dmat,
             dmat |-> [b \in Bins |-> [m \in ModelBins |-> dmat[m + NumModelBins * b]]],
             r_par_eff |-> r_par_eff, r_trans_eff |-> r_trans_eff,
             z_eff |-> z_eff, weight_eff |-> weight_eff,
             num_pairs |-> num_pairs, num_pairs_used |-> num_pairs_used]
  /\ pc' = "done"
  /\ UNCHANGED <<cfg_vars, pool_vars, wickT_vars,
                 ndone, counter, delta, neighbours, num_pairs, xi_vars,
                 dmat_vars, rand_vars, wick, dm>>

\* ------------------------------------------------------------------------
\* compute_metal_dmat
\* ------------------------------------------------------------------------
\* cosmo.get_r_comov and cosmo.get_dist_m: the distance at redshift zz
Cosmo(zz) == ((6 + zz) * One) \div 2

\* 10**log_lambda / constants.ABSORBER_IGM[abs_igm] - 1: the redshift of a
\* pixel at position p for the absorber abs_igm
MetalZ(p) == PixZ(p) + 2

\* ((1 + z1_abs1)/(1 + z_ref))**(alpha_abs[abs_igm] - 1), z_ref = 0, alpha = 2
ZWeightEvol(zz) == 1 + zz

\* deltas of the metal matrix: the quasar is behind every pixel of its
\* forest; at the absorber's redshift its last pixel may not be
MetalNeighbourLists == NeighbourListsAt({<<AngA, AngB>>, <<AngB, AngB>>})
MetalDeltas ==
  {WithNeighbours(MakeForest(pos, 3, zq), nbs) :
     pos \in {<<1>>, <<2>>, <<1, 2>>}, zq \in {8, 12}, nbs \in MetalNeighbourLists}

\* a mask that lets every pixel through
MetalPixelMaskAll(f) == [k \in DOMAIN f.log_lambda |-> TRUE]

\* w = z1_abs1 < delta1.z_qso
MetalPixelMask(f) == [k \in DOMAIN f.log_lambda |-> MetalZ(f.log_lambda[k]) < f.z_qso]

\* np.array(delta1.neighbours)[w], w being by then the mask of the pixels and
\* no longer the random draw draw_mask
MetalLoopNeighbours(f, nbs, draw_mask) == SelectSeq2(nbs, MetalPixelMask(f))

\* the entry with the two geometries exchanged: the data bin from the
\* absorber's geometry, the model bin from the original one
MetalPairRecordSwapped(f, o, i, rp, rt, rp_abs, rt_abs) ==
  [i |-> i, thingid |-> o.thingid, weights12 |-> f.weights[i] * o.weights,
   w_data |-> Window(rp, rt),
   w |-> Window(rp, rt) /\ Window(rp_abs, rt_abs),
   bins |-> DataBin(rp_abs, rt_abs), model_bins |-> ModelBin(rp, rt),
   r_par_abs |-> rp_abs, r_trans_abs |-> rt_abs,
   z |-> (MetalZ(f.log_lambda[i]) + o.z_qso) \div 2,
   z_weight_evol |-> ZWeightEvol(MetalZ(f.log_lambda[i]))]

\* the entry of pixel i in the 1-D arrays of the neighbour loop's body
MetalPairRecord(f, o, i, rp, rt, rp_abs, rt_abs) ==
  [i |-> i, thingid |-> o.thingid, weights12 |-> f.weights[i] * o.weights,
   w_data |-> Window(rp, rt),
   w |-> Window(rp, rt) /\ Window(rp_abs, rt_abs),
   bins |-> DataBin(rp, rt), model_bins |-> ModelBin(rp_abs, rt_abs),
   r_par_abs |-> rp_abs, r_trans_abs |-> rt_abs,
   z |-> (MetalZ(f.log_lambda[i]) + o.z_qso) \div 2,
   z_weight_evol |-> ZWeightEvol(MetalZ(f.log_lambda[i]))]

MetalPairAt(f, o, i) ==
  MetalPairRecord(f, o, i,
    RPar(f.r_comov[i], o.r_comov, o.cos_half),
    RTrans(f.dist_m[i], o.dist_m, o.sin_half),
    RPar(Cosmo(MetalZ(f.log_lambda[i])), o.r_comov, o.cos_half),
    RTrans(Cosmo(MetalZ(f.log_lambda[i])), o.dist_m, o.sin_half))

\* the pixels that passed the redshift cut, paired with obj2
MetalPairs(f, obj2) ==
  SelectSeq2([i \in DOMAIN f.log_lambda |-> MetalPairAt(f, obj2, i)], MetalPixelMask(f))

InDataWindow(p) == p.w_data

\* the accumulations of the body that are done before a slice addition
\* raises ValueError: 3 is all of them
MetalStage(dprs, mprs) ==
  IF BincountLen(BinsOf(dprs)) > NumBins THEN 0
  ELSE IF BincountLen([k \in DOMAIN mprs |->
                         mprs[k].model_bins + NumModelBins * mprs[k].bins])
            > NumBins * NumModelBins THEN 1
  ELSE IF BincountLen(ModelBinsOf(mprs)) > NumModelBins THEN 2 ELSE 3

MetalModelRebin(mprs, vals, stage) ==
  IF stage < 3 THEN ZeroArr(NumModelBins)
  ELSE Bincount(ModelBinsOf(mprs),
                [k \in DOMAIN mprs |->
                   vals[k] * mprs[k].weights12 * mprs[k].z_weight_evol],
                NumModelBins)

\* the increments of the body for one neighbour: dprs are the entries in the
\* data window, mprs those in the data and the model window
MetalRebin(j, dprs, mprs, stage) ==
  [stage |-> stage,
   data |-> IF stage < 1 THEN {} ELSE {<<dprs[k].i, dprs[k].thingid>> : k \in DOMAIN dprs},
   model |-> IF stage < 3 THEN {} ELSE {<<mprs[k].i, mprs[k].thingid>> : k \in DOMAIN mprs},
   weights_dmat |->
     IF stage < 1 THEN ZeroArr(NumBins)
     ELSE Bincount(BinsOf(dprs), [k \in DOMAIN dprs |-> dprs[k].weights12], NumBins),
   dmat |->
     IF stage < 2 THEN ZeroArr(NumBins * NumModelBins)
     ELSE Bincount([k \in DOMAIN mprs |->
                      mprs[k].model_bins + NumModelBins * mprs[k].bins],
                   [k \in DOMAIN mprs |-> mprs[k].weights12 * mprs[k].z_weight_evol],
                   NumBins * NumModelBins),
   r_par_eff |-> MetalModelRebin(mprs, [k \in DOMAIN mprs |-> mprs[k].r_par_abs], stage),
   r_trans_eff |->
     MetalModelRebin(mprs, [k \in DOMAIN mprs |-> mprs[k].r_trans_abs], stage),
   z_eff |-> MetalModelRebin(mprs, [k \in DOMAIN mprs |-> mprs[k].z], stage),
   weight_eff |-> MetalModelRebin(mprs, [k \in DOMAIN mprs |-> 1], stage)]

MetalOfPairs(j, dprs, mprs) == MetalRebin(j, dprs, mprs, MetalStage(dprs, mprs))

MetalNeighbour(f, obj2, j) ==
  MetalOfPairs(j, SelectSeq(MetalPairs(f, obj2), InDataWindow),
               SelectSeq(MetalPairs(f, obj2), InWindow))

MetalZero ==
  [stage |-> 3, data |-> {}, model |-> {},
   weights_dmat |-> ZeroArr(NumBins), dmat |-> ZeroArr(NumBins * NumModelBins),
   r_par_eff |-> ZeroArr(NumModelBins), r_trans_eff |-> ZeroArr(NumModelBins),
   z_eff |-> ZeroArr(NumModelBins), weight_eff |-> ZeroArr(NumModelBins)]

MetalSum(n, rest) ==
  [stage |-> IF n.stage < rest.stage THEN n.stage ELSE rest.stage,
   data |-> n.data \cup rest.data, model |-> n.model \cup rest.model,
   weights_dmat |-> AddRebin(n.weights_dmat, rest.weights_dmat),
   dmat |-> AddRebin(n.dmat, rest.dmat),
   r_par_eff |-> AddRebin(n.r_par_eff, rest.r_par_eff),
   r_trans_eff |-> AddRebin(n.r_trans_eff, rest.r_trans_eff),
   z_eff |-> AddRebin(n.z_eff, rest.z_eff),
   weight_eff |-> AddRebin(n.weight_eff, rest.weight_eff)]

\* the neighbour loop over objs2 from its j-th object on: the increments up
\* to its end, or up to the addition that raised
RECURSIVE MetalLoop(_, _, _)
MetalAfter(f, objs2, j, n) ==
  IF n.stage < 3 THEN n ELSE MetalSum(n, MetalLoop(f, objs2, j + 1))
MetalLoop(f, objs2, j) ==
  IF j > Len(objs2) THEN MetalZero
  ELSE MetalAfter(f, objs2, j, MetalNeighbour(f, objs2[j], j))

MetalTable ==
  [d \in MetalDeltas |-> MetalLoop(d, d.neighbours, 1)]

MetalAccumulate(d, c) ==
  /\ weights_dmat' = AddRebin(weights_dmat, c.weights_dmat)
  /\ dmat' = AddFracArr(dmat, [b \in DOMAIN c.dmat |-> Whole(c.dmat[b])])
  /\ r_par_eff' = AddRebin(r_par_eff, c.r_par_eff)
  /\ r_trans_eff' = AddRebin(r_trans_eff, c.r_trans_eff)
  /\ z_eff' = AddRebin(z_eff, c.z_eff)
  /\ weight_eff' = AddRebin(weight_eff, c.weight_eff)
  /\ added' = [data |-> c.data, model |-> c.model]
  /\ pc' = IF c.stage < 3 THEN "raised" ELSE pc
  /\ neighbours' = IF c.stage < 3 THEN d.neighbours ELSE "None"

\* one pass of the loop body for the delta d, np.random.rand returning draws
ComputeMetalDmatDelta(d, draws) ==
  /\ mode = "compute_metal_dmat" /\ pc = "loop" /\ ndone < MaxDeltas
  /\ counter' = counter + 1
  /\ ndone' = ndone + 1
  /\ delta' = d
  /\ rand' = draws
  /\ num_pairs' = num_pairs + Len(d.neighbours)
  /\ num_pairs_used' = num_pairs_used + MaskSum(RandomMask(draws))
  /\ IF MaskSum(MetalPixelMask(d)) = 0
       THEN \* r_comov1.size == 0: continue
            /\ neighbours' = d.neighbours
            /\ added' = NoneAdded
            /\ UNCHANGED <<pc, dmat_vars>>
       ELSE IF Len(MetalPixelMask(d)) # Len(d.neighbours)
         THEN \* the boolean index has not the length of the array: IndexError
              /\ pc' = "raised"
              /\ neighbours' = d.neighbours
              /\ added' = NoneAdded
              /\ UNCHANGED dmat_vars
         ELSE MetalAccumulate(d,
                MetalTable[WithNeighbours(d,
                  MetalLoopNeighbours(d, d.neighbours, RandomMask(draws)))])
  /\ UNCHANGED <<cfg_vars, pool_vars, wickT_vars,
                 xi_vars, wick, dm, ret>>

ComputeMetalDmatReturn ==
  /\ mode = "compute_metal_dmat" /\ pc = "loop"
  /\ ret' = [weights_dmat |-> weights_dmat,
             dmat |-> [b \in Bins |-> [m \in ModelBins |-> dmat[m + NumModelBins * b]]],
             r_par_eff |-> r_par_eff, r_trans_eff |-> r_trans_eff,
             z_eff |-> z_eff, weight_eff |-> weight_eff,
             num_pairs |-> num_pairs, num_pairs_used |-> num_pairs_used]
  /\ pc' = "done"
  /\ UNCHANGED <<cfg_vars, pool_vars, wickT_vars,
                 ndone, counter, delta, neighbours, num_pairs, xi_vars,
                 dmat_vars, rand_vars, wick, dm>>

\* ------------------------------------------------------------------------
\* fill_wickT1234 and fill_wickT56
\* ------------------------------------------------------------------------
\* ((1 + z)/(1 + z_ref))**(z_evol - 1), z_ref = 0 and z_evol_del = z_evol_obj = 2
ZEvol(zz) == 1 + zz

\* c1d[fname](|log_lambda - log_lambda'|) with v1d = 1, and the array c1d_1
\* that wickT hands to fill_wickT1234
C1dFn(dll) == 3 - dll
C1d1(f, i1, i2) ==
  f.weights[i1] * f.weights[i2] * C1dFn(Abs(f.log_lambda[i1] - f.log_lambda[i2]))

\* the external 3-D correlation and its grid
cfWick == <<2, 1>>
cfWick_np == 2
cfWick_nt == 1
cfWick_rp_min == 0
cfWick_rp_max == 2 * One
cfWick_rt_max == 2 * One

\* both separations of these two functions are built from r_comov
UseRComov(x) == [x EXCEPT !.dist_m = x.r_comov]
WickPairs(f, nbs) ==
  WindowPairs(UseRComov(f), [k \in DOMAIN nbs |-> UseRComov(nbs[k])])

\* a scalar addition a[idx] += val of the loops
WickOp(arr, idx, val) == [arr |-> arr, idx |-> idx, val |-> val]

\* the additions without the branch of T3: two pairs of different objects
\* go to T4, whether or not they share the pixel
WickT234OpsNoT3(f, nbs, a, b) ==
  IF a.j = b.j
    THEN <<WickOp("T2", <<a.bins, b.bins>>, C1d1(f, a.i, b.i) * ZEvol(nbs[a.j].z_qso) * ZEvol(nbs[a.j].z_qso)),
           WickOp("T2", <<b.bins, a.bins>>, C1d1(f, a.i, b.i) * ZEvol(nbs[a.j].z_qso) * ZEvol(nbs[a.j].z_qso))>>
  ELSE <<WickOp("T4", <<a.bins, b.bins>>,
                C1d1(f, a.i, b.i) * ZEvol(nbs[a.j].z_qso) * ZEvol(nbs[b.j].z_qso)),
         WickOp("T4", <<b.bins, a.bins>>,
                C1d1(f, a.i, b.i) * ZEvol(nbs[a.j].z_qso) * ZEvol(nbs[b.j].z_qso))>>

\* the additions of fill_wickT1234 for the pairs k1 < k2 of prs
WickT234Ops(f, nbs, a, b) ==
  IF a.j = b.j
    THEN <<WickOp("T2", <<a.bins, b.bins>>, C1d1(f, a.i, b.i) * ZEvol(nbs[a.j].z_qso) * ZEvol(nbs[a.j].z_qso)),
           WickOp("T2", <<b.bins, a.bins>>, C1d1(f, a.i, b.i) * ZEvol(nbs[a.j].z_qso) * ZEvol(nbs[a.j].z_qso))>>
  ELSE IF a.i = b.i
    THEN <<WickOp("T3", <<a.bins, b.bins>>,
                  ((a.weights12 * b.weights12) \div f.weights[a.i]) * ZEvol(f.z[a.i])),
           WickOp("T3", <<b.bins, a.bins>>,
                  ((a.weights12 * b.weights12) \div f.weights[a.i]) * ZEvol(f.z[a.i]))>>
  ELSE <<WickOp("T4", <<a.bins, b.bins>>,
                C1d1(f, a.i, b.i) * ZEvol(nbs[a.j].z_qso) * ZEvol(nbs[b.j].z_qso)),
         WickOp("T4", <<b.bins, a.bins>>,
                C1d1(f, a.i, b.i) * ZEvol(nbs[a.j].z_qso) * ZEvol(nbs[b.j].z_qso))>>

RECURSIVE WickInnerOps(_, _, _, _, _)
WickInnerOps(f, nbs, prs, k1, k2) ==
  IF k2 > Len(prs) THEN <<>>
  ELSE WickT234Ops(f, nbs, prs[k1], prs[k2]) \o WickInnerOps(f, nbs, prs, k1, k2 + 1)

WickT1Ops(f, a) ==
  <<WickOp("wAll", <<a.bins>>, a.weights12),
    WickOp("num_pairs_wick", <<a.bins>>, 1),
    WickOp("T1", <<a.bins, a.bins>>,
           ((a.weights12 * a.weights12) \div f.weights[a.i]) * ZEvol(f.z[a.i]))>>

RECURSIVE WickT1234Ops(_, _, _, _)
WickT1234Ops(f, nbs, prs, k1) ==
  IF k1 > Len(prs) THEN <<>>
  ELSE WickT1Ops(f, prs[k1]) \o WickInnerOps(f, nbs, prs, k1, k1 + 1)
         \o WickT1234Ops(f, nbs, prs, k1 + 1)

\* the additions of one call of fill_wickT1234, in program order
fill_wickT1234(d) == WickT1234Ops(d, d.neighbours, WickPairs(d, d.neighbours), 1)

\* cf13[pix2, pix1] for pixel i1 of forest d1 and pixel i3 of forest d3
Cf13InWindow(rp, rt) ==
  (rp < cfWick_rp_max) /\ (rt < cfWick_rt_max) /\ (rp >= cfWick_rp_min)
Cf13At(rp, rt) ==
  IF Cf13InWindow(rp, rt)
    THEN cfWick[1 + astype_int(fmulint(fdiv(rt, cfWick_rt_max), cfWick_nt))
                  + cfWick_nt * astype_int(fmulint(fdiv(fsub(rp, cfWick_rp_min),
                                     fsub(cfWick_rp_max, cfWick_rp_min)), cfWick_np))]
    ELSE 0
Cf13RPar(d1, d3, ang13, i1, i3) ==
  fmul(Abs(fsub(d1.r_comov[i1], d3.r_comov[i3])), ang13.cos_half)
Cf13RTrans(d1, d3, ang13, i1, i3) ==
  fmul(fadd(d1.r_comov[i1], d3.r_comov[i3]), ang13.sin_half)
Cf13(d1, d3, ang13, i1, i3) ==
  Cf13At(Cf13RPar(d1, d3, ang13, i1, i3), Cf13RTrans(d1, d3, ang13, i1, i3))

\* the two additions of the loops of T5 and T6 for a pair a of forest 1 and a
\* pair b of forest 3
WickT56Pair(arr, d1, d3, ang13, a, b) ==
  <<WickOp(arr, <<a.bins, b.bins>>, Cf13(d1, d3, ang13, a.i, b.i) * a.weights12 * b.weights12),
    WickOp(arr, <<b.bins, a.bins>>, Cf13(d1, d3, ang13, a.i, b.i) * a.weights12 * b.weights12)>>

\* the loop over k1 and k2 of T5 (same = TRUE: the pairs of equal thingid) or
\* of T6 (same = FALSE: the others); n numbers the pairs (k1, k2) from 0
RECURSIVE WickT56Loop(_, _, _, _, _, _, _, _)
WickT56Loop(arr, same, d1, d3, ang13, prs12, prs34, n) ==
  IF n >= Len(prs12) * Len(prs34) THEN <<>>
  ELSE (IF (d1.neighbours[prs12[(n \div Len(prs34)) + 1].j].thingid
              = d3.neighbours[prs34[(n % Len(prs34)) + 1].j].thingid) = same
          THEN WickT56Pair(arr, d1, d3, ang13, prs12[(n \div Len(prs34)) + 1],
                           prs34[(n % Len(prs34)) + 1])
          ELSE <<>>)
       \o WickT56Loop(arr, same, d1, d3, ang13, prs12, prs34, n + 1)

WickT56Ops(d1, d3, ang13, prs12, prs34, max_diag) ==
  IF prs12 = <<>> \/ prs34 = <<>> THEN <<>>
  ELSE WickT56Loop("T5", TRUE, d1, d3, ang13, prs12, prs34, 0)
       \o (IF max_diag = 5 THEN <<>>
           ELSE WickT56Loop("T6", FALSE, d1, d3, ang13, prs12, prs34, 0))

\* the additions of one call of fill_wickT56, in program order
fill_wickT56(d1, d3, ang13, max_diag) ==
  IF \A i1 \in DOMAIN d1.r_comov, i3 \in DOMAIN d3.r_comov :
       ~Cf13InWindow(Cf13RPar(d1, d3, ang13, i1, i3), Cf13RTrans(d1, d3, ang13, i1, i3))
    THEN <<>>
    ELSE WickT56Ops(d1, d3, ang13, WickPairs(d1, d1.neighbours),
                    WickPairs(d3, d3.neighbours), max_diag)

\* deltas of the Wick functions
WickNeighbourLists == NeighbourListsAt({<<AngA, AngB>>, <<AngB, AngB>>})
WickDeltas ==
  {WithNeighbours(MakeForest(pos, 3, 8), nbs) :
     pos \in {<<0, 1>>, <<1, 2>>}, nbs \in WickNeighbourLists}
\* pairs of forests near enough to be correlated, and their angle
Wick56Deltas == {d \in WickDeltas : Len(d.neighbours) = 2}
WickAng13 == AngA

WickArrays == {"wAll", "num_pairs_wick", "T1", "T2", "T3", "T4", "T5", "T6"}
WickZero ==
  [a \in WickArrays |->
     IF a \in {"wAll", "num_pairs_wick"} THEN ZeroArr(NumBins)
     ELSE ZeroArr(NumBins * NumBins)]

\* where a[idx] lies in the memory of a, and whether idx is an index of a
WickOffset(op) ==
  IF Len(op.idx) = 2 THEN op.idx[1] * NumBins + op.idx[2] ELSE op.idx[1]
WickInBounds(op) == \A n \in DOMAIN op.idx : op.idx[n] \in Bins

\* the addition op: a write outside the array's memory leaves the arrays as
\* they are
WickWrite(mem, op) ==
  IF WickOffset(op) \in DOMAIN mem[op.arr]
    THEN [mem EXCEPT ![op.arr][WickOffset(op)] = @ + op.val]
    ELSE mem

\* the additions ops from the k-th on; with checked indices the first one
\* out of bounds raises IndexError
RECURSIVE WickApply(_, _, _, _)
WickApply(mem, ops, k, checked) ==
  IF k > Len(ops) THEN [mem |-> mem, raised |-> FALSE]
  ELSE IF checked /\ ~WickInBounds(ops[k]) THEN [mem |-> mem, raised |-> TRUE]
  ELSE WickApply(WickWrite(mem, ops[k]), ops, k + 1, checked)

WickT1234Table == [d \in WickDeltas |-> fill_wickT1234(d)]
WickT56Table ==
  [d1 \in Wick56Deltas, d3 \in Wick56Deltas |->
     [m \in {5, 6} |-> fill_wickT56(d1, d3, WickAng13, m)]]

WickDone(res) ==
  /\ wick' = res.mem
  /\ pc' = IF res.raised THEN "raised" ELSE pc

\* one call fill_wickT1234(...) for the delta d
FillWickT1234(d) ==
  /\ mode = "fill_wickT" /\ pc = "loop" /\ ndone < MaxDeltas
  /\ ndone' = ndone + 1
  /\ delta' = d
  /\ WickDone(WickApply(wick, WickT1234Table[d], 1, bounds_checked))
  /\ UNCHANGED <<cfg_vars, pool_vars, wickT_vars,
                 counter, neighbours, num_pairs, xi_vars, dmat_vars,
                 rand_vars, dm, ret>>

\* one call fill_wickT56(...) for the forests d1 and d3
FillWickT56(d1, d3) ==
  /\ mode = "fill_wickT" /\ pc = "loop" /\ ndone < MaxDeltas
  /\ ndone' = ndone + 1
  /\ delta' = d1
  /\ WickDone(WickApply(wick, WickT56Table[d1, d3][max_diagram], 1, bounds_checked))
  /\ UNCHANGED <<cfg_vars, pool_vars, wickT_vars,
                 counter, neighbours, num_pairs, xi_vars, dmat_vars,
                 rand_vars, dm, ret>>

\* ------------------------------------------------------------------------
\* bin/do_dmat.py: the reduction of the workers' results
\* ------------------------------------------------------------------------
NProcVals == {1, 2}

\* the data bins of the driver's grid
DriverBins == {0, 1}

\* what a worker returns for its group of pixels: the weight of each bin,
\* the matrix, and the two pair counts; a bin without weight has no entries
DriverMatrix(wdm) ==
  [i \in DriverBins |-> [j \in DriverBins |->
     IF i = j THEN wdm[i] ELSE IF wdm[i] > 0 /\ wdm[j] > 0 THEN -1 ELSE 0]]
DriverResults ==
  {[wdm |-> wdm, dm |-> DriverMatrix(wdm), npairs |-> wdm[0] + wdm[1] + 1,
    npairs_used |-> wdm[0] + wdm[1]] : wdm \in [DriverBins -> {0, 2}]}

\* pool.map gathers the result of one more worker
DoDmatWorker(res) ==
  /\ mode = "do_dmat" /\ pc = "loop" /\ Len(dm) < nproc
  /\ dm' = Append(dm, res)
  /\ UNCHANGED <<cfg_vars, pool_vars, wickT_vars,
                 pc, ndone, counter, delta, neighbours, num_pairs,
                 xi_vars, dmat_vars, rand_vars, wick, ret>>

\* dm /= wdm: numpy divides entry [i][j] by wdm[j]
DriverDivide(m, wdm) ==
  [i \in DriverBins |-> [j \in DriverBins |-> Frac(m[i][j], wdm[j])]]

DriverSumWdm(parts) ==
  [b \in DriverBins |-> SumSeq([k \in DOMAIN parts |-> parts[k].wdm[b]])]
DriverSumDm(parts) ==
  [i \in DriverBins |-> [j \in DriverBins |->
     SumSeq([k \in DOMAIN parts |-> parts[k].dm[i][j]])]]

\* the sums over the workers and the normalisation
DoDmatReduce ==
  /\ mode = "do_dmat" /\ pc = "loop" /\ Len(dm) = nproc
  /\ ret' = [wdm |-> DriverSumWdm(dm),
             dm |-> DriverDivide(DriverSumDm(dm), DriverSumWdm(dm)),
             npairs |-> SumSeq([k \in DOMAIN dm |-> dm[k].npairs]),
             npairs_used |-> SumSeq([k \in DOMAIN dm |-> dm[k].npairs_used])]
  /\ pc' = "done"
  /\ UNCHANGED <<cfg_vars, pool_vars, wickT_vars,
                 ndone, counter, delta, neighbours, num_pairs, xi_vars,
                 dmat_vars, rand_vars, wick, dm>>

\* ------------------------------------------------------------------------
\* Specification
\* ------------------------------------------------------------------------
Modes ==
  {"compute_xi", "xcf1d", "compute_dmat", "compute_metal_dmat", "fill_wickT", "do_dmat"}

ArrLen(m) == IF m = "xcf1d" THEN num_bins_r_par ELSE NumBins

Init ==
  /\ mode \in Modes
  /\ pc = "loop"
  /\ ndone = 0
  /\ counter = 0
  /\ delta = "none" /\ neighbours = "none" /\ rand = <<>>
  /\ added = NoneAdded
  /\ reject \in (IF mode \in {"compute_dmat", "compute_metal_dmat"}
                   THEN RejectVals ELSE {0})
  /\ xi = ZeroArr(ArrLen(mode)) /\ weights = ZeroArr(ArrLen(mode))
  /\ r_par = ZeroArr(ArrLen(mode)) /\ z = ZeroArr(ArrLen(mode))
  /\ r_trans = IF mode = "xcf1d" THEN <<>> ELSE ZeroArr(NumBins)
  /\ num_pairs = IF mode \in {"compute_xi", "xcf1d"} THEN ZeroArr(ArrLen(mode)) ELSE 0
  /\ dmat = ZeroFracArr(NumBins * NumModelBins)
  /\ weights_dmat = ZeroArr(NumBins)
  /\ r_par_eff = ZeroArr(NumModelBins) /\ r_trans_eff = ZeroArr(NumModelBins)
  /\ z_eff = ZeroArr(NumModelBins) /\ weight_eff = ZeroArr(NumModelBins)
  /\ num_pairs_used = 0
  /\ wick = WickZero
  /\ max_diagram \in (IF mode = "fill_wickT" THEN {5, 6} ELSE {4})
  /\ bounds_checked \in (IF mode = "fill_wickT" THEN BOOLEAN ELSE {TRUE})
  /\ nproc \in (IF mode = "do_dmat" THEN NProcVals ELSE {1})
  /\ dm = <<>>
  /\ ret = "none"
  /\ data = <<>> /\ cpu_data = <<>> /\ lock = 0 /\ task = <<>>
  /\ nb = <<>> /\ writes = {} /\ rng = <<>>
  /\ cfWick_given = TRUE /\ calls = <<>> /\ dneighs = <<>>

Next ==
  \/ \E d \in XiDeltas : ComputeXiDelta(d)
  \/ ComputeXiReturn
  \/ \E d \in Xcf1dDeltas : Xcf1dDelta(d)
  \/ Xcf1dReturn
  \/ \E d \in DmatDeltas : \E draws \in DrawSeqs(Len(d.neighbours)) :
       ComputeDmatDelta(d, draws)
  \/ ComputeDmatReturn
  \/ \E d \in MetalDeltas : \E draws \in DrawSeqs(Len(d.neighbours)) :
       ComputeMetalDmatDelta(d, draws)
  \/ ComputeMetalDmatReturn
  \/ \E d \in WickDeltas : FillWickT1234(d)
  \/ \E d1 \in Wick56Deltas, d3 \in Wick56Deltas : FillWickT56(d1, d3)
  \/ \E res \in DriverResults : DoDmatWorker(res)
  \/ DoDmatReduce

Spec == Init /\ [][Next]_vars

\* ------------------------------------------------------------------------
\* fill_neighs
\* ------------------------------------------------------------------------
Healpixs == 0 .. (NumHealpix - 1)

\* sin(ang_max/2): angles are compared through the sine of their half
ang_max == One \div 4
z_cut_min == 3
z_cut_max == 7

\* the angle to an object on the same line of sight, and to one far away
Ang0 == [cos_half |-> One, sin_half |-> 0]
AngD == [cos_half |-> One - 2, sin_half |-> One \div 2]

\* objs: the objects of each healpix
PoolObjs ==
  [h \in Healpixs |-> IF h = 0 THEN <<Obj1>> ELSE IF h = 1 THEN <<Obj2>> ELSE <<>>]

\* a delta with its position on the sky, given as its angle to each object
AtSky(f, sky) ==
  [thingid |-> f.thingid, z_qso |-> f.z_qso, log_lambda |-> f.log_lambda,
   z |-> f.z, r_comov |-> f.r_comov, dist_m |-> f.dist_m,
   weights |-> f.weights, delta |-> f.delta, sky |-> sky]

\* the deltas of a pool run: one next to Obj1 with Obj2 at exactly ang_max,
\* the forest of Obj2 itself, one whose pair with Obj1 has r_par just below
\* r_par_max, and one with no object in reach
PoolForests ==
  {AtSky(MakeForest(<<0, 1>>, 3, 8), <<AngA, AngC>>),
   AtSky(MakeForest(<<0, 1>>, 2, 6), <<AngB, Ang0>>),
   AtSky(MakeForest(<<2>>, 3, 8), <<AngB, AngA>>),
   AtSky(MakeForest(<<0>>, 3, 8), <<AngA, AngD>>)}

\* query_disc(..., ang_max, inclusive=True): the pixels that overlap the
\* disc, among them every pixel with an object within ang_max
QueryDisc(d) ==
  {h \in Healpixs :
     \E k \in DOMAIN PoolObjs[h] :
       d.sky[PoolObjs[h][k].thingid].sin_half <= ang_max + (One \div 8)}

\* the objects of the pixels h, h + 1, ... of the disc, in that order
RECURSIVE DiscObjects(_, _)
DiscObjects(d, h) ==
  IF h >= NumHealpix THEN <<>>
  ELSE (IF h \in QueryDisc(d) THEN PoolObjs[h] ELSE <<>>) \o DiscObjects(d, h + 1)

\* ang <= ang_max in place of ang < ang_max
AngUpToMax(a) == a.sin_half <= ang_max

\* w = ang < ang_max
AngBelowMax(a) == a.sin_half < ang_max

\* the prefilter with the pixels exchanged: the last one against r_par_max,
\* the first one against r_par_min
FillNeighsKeepsExchanged(d, o) ==
  /\ o.thingid # d.thingid
  /\ AngBelowMax(d.sky[o.thingid])
  /\ RPar(d.r_comov[Len(d.r_comov)], o.r_comov, d.sky[o.thingid].cos_half) < r_par_max
  /\ RPar(d.r_comov[1], o.r_comov, d.sky[o.thingid].cos_half) > r_par_min
  /\ d.z[Len(d.z)] + o.z_qso >= 2 * z_cut_min
  /\ d.z[Len(d.z)] + o.z_qso < 2 * z_cut_max

\* whether fill_neighs keeps the object o of the disc for the delta d
FillNeighsKeeps(d, o) ==
  /\ o.thingid # d.thingid
  /\ AngBelowMax(d.sky[o.thingid])
  /\ RPar(d.r_comov[1], o.r_comov, d.sky[o.thingid].cos_half) < r_par_max
  /\ RPar(d.r_comov[Len(d.r_comov)], o.r_comov, d.sky[o.thingid].cos_half) > r_par_min
  /\ d.z[Len(d.z)] + o.z_qso >= 2 * z_cut_min
  /\ d.z[Len(d.z)] + o.z_qso < 2 * z_cut_max

FillNeighsSelect(d, cand) ==
  SelectSeq2(cand, [k \in DOMAIN cand |-> FillNeighsKeeps(d, cand[k])])

FillNeighsList(d, kept) ==
  [k \in DOMAIN kept |-> Neighbour(kept[k], d.sky[kept[k].thingid])]

\* the value fill_neighs assigns to delta.neighbours
fill_neighs(d) == FillNeighsList(d, FillNeighsSelect(d, DiscObjects(d, 0)))

FillNeighsTable == [d \in PoolForests |-> fill_neighs(d)]

\* ------------------------------------------------------------------------
\* The driver's pool: partition, pool.map, the tasks
\* ------------------------------------------------------------------------
\* data.keys(), in the order the dictionary yields them
Keys == {h \in Healpixs : data[h] # <<>>}
RECURSIVE Ascending(_)
Ascending(S) ==
  IF S = {} THEN <<>>
  ELSE <<CHOOSE x \in S : \A y \in S : x <= y>>
         \o Ascending(S \ {CHOOSE x \in S : \A y \in S : x <= y})
Reverse(s) == [k \in DOMAIN s |-> s[Len(s) + 1 - k]]
KeyOrders == {Ascending(Keys), Reverse(Ascending(Keys))}

Min(a, b) == IF a < b THEN a ELSE b

\* every task is handed all the keys
CpuDataShared(keys, n) == [ip \in 1 .. Min(n, Len(keys)) |-> keys]

\* cpu_data.values(): key number i goes to the group i % nproc
CpuData(keys, n) ==
  [ip \in 1 .. Min(n, Len(keys)) |->
     [j \in 1 .. Cardinality({i \in DOMAIN keys : (i - 1) % n = ip - 1}) |->
        keys[ip + (j - 1) * n]]]

\* the deltas of data from the pixel h on, each as <<healpix, index>>
RECURSIVE DeltasFrom(_)
DeltasFrom(h) ==
  IF h >= NumHealpix THEN <<>>
  ELSE [i \in DOMAIN data[h] |-> <<h, i>>] \o DeltasFrom(h + 1)

\* the loops run over all of data
AllDeltas(healpixs) == DeltasFrom(0)

\* for healpix in healpixs: for delta in data[healpix]
RECURSIVE GroupDeltas(_)
GroupDeltas(healpixs) ==
  IF healpixs = <<>> THEN <<>>
  ELSE [i \in DOMAIN data[Head(healpixs)] |-> <<Head(healpixs), i>>]
         \o GroupDeltas(Tail(healpixs))

num_data == Len(DeltasFrom(0))
DeltaRefs == {DeltasFrom(0)[k] : k \in DOMAIN DeltasFrom(0)}

\* the lock is never found taken
LockIgnored(holder) == TRUE

\* with lock: the lock can be acquired when no task holds it
LockFree(holder) == holder = 0

\* the accumulators of compute_xi
PoolXiZero ==
  [xi |-> ZeroArr(NumBins), weights |-> ZeroArr(NumBins),
   r_par |-> ZeroArr(NumBins), r_trans |-> ZeroArr(NumBins),
   z |-> ZeroArr(NumBins), num_pairs |-> ZeroArr(NumBins)]

PoolXiAdd(acc, r) ==
  [xi |-> AddRebin(acc.xi, r.rebin_xi),
   weights |-> AddRebin(acc.weights, r.rebin_weight),
   r_par |-> AddRebin(acc.r_par, r.rebin_r_par),
   r_trans |-> AddRebin(acc.r_trans, r.rebin_r_trans),
   z |-> AddRebin(acc.z, r.rebin_z),
   num_pairs |-> AddRebin(acc.num_pairs, r.rebin_num_pairs)]

PoolXiResult(acc) ==
  [weights |-> acc.weights, xi |-> Normalise(acc.xi, acc.weights),
   r_par |-> Normalise(acc.r_par, acc.weights),
   r_trans |-> Normalise(acc.r_trans, acc.weights),
   z |-> Normalise(acc.z, acc.weights), num_pairs |-> acc.num_pairs]

\* what compute_xi_forest_pairs returns for a delta with the neighbours
\* fill_neighs gave it
PoolXiTable ==
  [d \in PoolForests |-> compute_xi_forest_pairs(d, FillNeighsTable[d])]

\* the attribute neighbours of a delta: not yet assigned, a list, or None
NoAttribute == [is |-> "unset", list |-> <<>>]
ListAttribute(l) == [is |-> "list", list |-> l]
NoneAttribute == [is |-> "None", list |-> <<>>]

\* an attribute write: the task, the function it runs, the delta, the field
Write(t, fn, ref) ==
  [by |-> t, in |-> fn, healpix |-> ref[1], index |-> ref[2], field |-> "neighbours"]

\* the accumulators of compute_dmat
PoolDmatZero ==
  [weights_dmat |-> ZeroArr(NumBins), dmat |-> ZeroFracArr(NumBins * NumModelBins),
   r_par_eff |-> ZeroArr(NumModelBins), r_trans_eff |-> ZeroArr(NumModelBins),
   z_eff |-> ZeroArr(NumModelBins), weight_eff |-> ZeroArr(NumModelBins),
   num_pairs |-> 0, num_pairs_used |-> 0]

\* the pass of compute_dmat for a delta with n neighbours of which w are
\* kept, c being the increments of compute_dmat_forest_pairs
PoolDmatAdd(acc, n, w, c) ==
  [weights_dmat |-> AddRebin(acc.weights_dmat, c.weights_dmat),
   dmat |-> AddFracArr(acc.dmat, c.dmat),
   r_par_eff |-> AddRebin(acc.r_par_eff, c.r_par_eff),
   r_trans_eff |-> AddRebin(acc.r_trans_eff, c.r_trans_eff),
   z_eff |-> AddRebin(acc.z_eff, c.z_eff),
   weight_eff |-> AddRebin(acc.weight_eff, c.weight_eff),
   num_pairs |-> acc.num_pairs + n,
   num_pairs_used |-> acc.num_pairs_used + MaskSum(w)]

PoolDmatResult(acc) ==
  [weights_dmat |-> acc.weights_dmat,
   dmat |-> [b \in Bins |-> [m \in ModelBins |-> acc.dmat[m + NumModelBins * b]]],
   r_par_eff |-> acc.r_par_eff, r_trans_eff |-> acc.r_trans_eff,
   z_eff |-> acc.z_eff, weight_eff |-> acc.weight_eff,
   num_pairs |-> acc.num_pairs, num_pairs_used |-> acc.num_pairs_used]

\* the forests of a pool run of compute_dmat: those of two pixels
PoolDmatForests == {d \in PoolForests : Len(d.log_lambda) >= 2}

\* what compute_dmat_forest_pairs adds for a delta and the mask w of its
\* neighbours
PoolDmatTable ==
  [d \in PoolDmatForests |->
     [w \in [DOMAIN FillNeighsTable[d] -> BOOLEAN] |->
        compute_dmat_forest_pairs(d, SelectSeq2(FillNeighsTable[d], w))]]

\* np.random.rand after random.seed(0): the draw number k of a process, in
\* quarters; every process of the pool starts from the state of the parent
SeededDraw(k) == IF k % 2 = 0 THEN 3 ELSE 0
SeededDraws(from, n) == [k \in 1 .. n |-> SeededDraw(from + k - 1)]

PoolModes == {"pool_xi", "pool_dmat"}

\* a task as pool.map queues it
TaskStart(m) ==
  [pc |-> "queued", proc |-> 0, k |-> 1, tmp |-> 0, incs |-> 0,
   acc |-> IF m = "pool_xi" THEN PoolXiZero ELSE PoolDmatZero,
   ret |-> "none"]

pool_other_vars ==
  <<reject, max_diagram, bounds_checked, ndone, delta, neighbours, num_pairs,
    xi_vars, dmat_vars, rand_vars, wick, wickT_vars>>

\* the loop of bin/do_dmat.py that deals the keys to the groups
PoolPartition(keys) ==
  /\ mode \in PoolModes /\ pc = "partition"
  /\ cpu_data' = CpuData(keys, nproc)
  /\ task' = [t \in DOMAIN CpuData(keys, nproc) |-> TaskStart(mode)]
  /\ pc' = "map"
  /\ UNCHANGED <<mode, nproc, data, lock, nb, writes, rng, counter, dm, ret,
                 pool_other_vars>>

\* the idle process p of the pool takes the next task of the queue
PoolStart(t, p) ==
  /\ mode \in PoolModes /\ pc = "map" /\ task[t].pc = "queued"
  /\ \A u \in DOMAIN task : (u < t) => task[u].pc # "queued"
  /\ \A u \in DOMAIN task : (task[u].proc = p) => task[u].pc \in {"done", "raised"}
  /\ task' = [task EXCEPT ![t].proc = p, ![t].pc = "fill_neighs"]
  /\ UNCHANGED <<mode, nproc, data, cpu_data, lock, nb, writes, rng, pc, counter, dm,
                 ret, pool_other_vars>>

\* one pass of the loops of fill_neighs in the task t
PoolFillNeighs(t, refs) ==
  /\ mode \in PoolModes /\ pc = "map" /\ task[t].pc = "fill_neighs"
  /\ nb' = [nb EXCEPT ![refs[task[t].k][1]][refs[task[t].k][2]] =
              ListAttribute(FillNeighsTable[data[refs[task[t].k][1]][refs[task[t].k][2]]])]
  /\ writes' = writes \cup {Write(t, "fill_neighs", refs[task[t].k])}
  /\ task' = [task EXCEPT ![t].k = IF task[t].k = Len(refs) THEN 1 ELSE task[t].k + 1,
                          ![t].pc = IF task[t].k = Len(refs) THEN "lock" ELSE "fill_neighs"]
  /\ UNCHANGED <<mode, nproc, data, cpu_data, lock, rng, pc, counter, dm, ret,
                 pool_other_vars>>

\* with lock: entering
PoolAcquire(t) ==
  /\ mode \in PoolModes /\ pc = "map" /\ task[t].pc = "lock"
  /\ LockFree(lock)
  /\ lock' = t
  /\ task' = [task EXCEPT ![t].pc = "read"]
  /\ UNCHANGED <<mode, nproc, data, cpu_data, nb, writes, rng, pc, counter, dm, ret,
                 pool_other_vars>>

\* counter.value += 1: the load
PoolRead(t) ==
  /\ mode \in PoolModes /\ pc = "map" /\ task[t].pc = "read"
  /\ task' = [task EXCEPT ![t].tmp = counter, ![t].pc = "write"]
  /\ UNCHANGED <<mode, nproc, data, cpu_data, lock, nb, writes, rng, pc, counter, dm, ret,
                 pool_other_vars>>

\* counter.value += 1: the store, and leaving the with block
PoolWrite(t) ==
  /\ mode \in PoolModes /\ pc = "map" /\ task[t].pc = "write"
  /\ counter' = task[t].tmp + 1
  /\ lock' = 0
  /\ task' = [task EXCEPT ![t].incs = task[t].incs + 1, ![t].pc = "body"]
  /\ UNCHANGED <<mode, nproc, data, cpu_data, nb, writes, rng, pc, dm, ret,
                 pool_other_vars>>

\* the rest of the loop body of compute_xi for the delta ref = <<healpix, index>>
PoolXiBody(t, refs, ref) ==
  /\ mode = "pool_xi" /\ pc = "map" /\ task[t].pc = "body"
  /\ ref = refs[task[t].k]
  /\ IF nb[ref[1]][ref[2]].is # "list"
       THEN \* delta.neighbours.size: AttributeError
            /\ task' = [task EXCEPT ![t].pc = "raised"]
            /\ UNCHANGED <<nb, writes>>
       ELSE IF Len(nb[ref[1]][ref[2]].list) # 0
                 /\ PoolXiTable[data[ref[1]][ref[2]]].len > NumBins
         THEN \* the slice addition raises ValueError
              /\ task' = [task EXCEPT ![t].pc = "raised"]
              /\ UNCHANGED <<nb, writes>>
         ELSE /\ task' =
                   [task EXCEPT
                      ![t].acc = IF Len(nb[ref[1]][ref[2]].list) # 0
                                   THEN PoolXiAdd(task[t].acc, PoolXiTable[data[ref[1]][ref[2]]])
                                   ELSE task[t].acc,
                      ![t].k = task[t].k + 1,
                      ![t].pc = IF task[t].k = Len(refs) THEN "return" ELSE "lock"]
              /\ nb' = [nb EXCEPT ![ref[1]][ref[2]] = NoneAttribute]
              /\ writes' = writes \cup {Write(t, "compute_xi", ref)}
  /\ UNCHANGED <<mode, nproc, data, cpu_data, lock, rng, pc, counter, dm, ret,
                 pool_other_vars>>

\* the normalisation and the return of compute_xi
PoolXiReturn(t) ==
  /\ mode = "pool_xi" /\ pc = "map" /\ task[t].pc = "return"
  /\ task' = [task EXCEPT ![t].ret = PoolXiResult(task[t].acc), ![t].pc = "done"]
  /\ UNCHANGED <<mode, nproc, data, cpu_data, lock, nb, writes, rng, pc, counter, dm, ret,
                 pool_other_vars>>

\* the rest of the loop body of compute_dmat for the delta ref, the draws
\* being those of the process that runs the task
PoolDmatBody(t, refs, ref, draws) ==
  /\ mode = "pool_dmat" /\ pc = "map" /\ task[t].pc = "body"
  /\ ref = refs[task[t].k]
  /\ IF nb[ref[1]][ref[2]].is # "list"
       THEN \* len(delta1.neighbours): TypeError
            /\ task' = [task EXCEPT ![t].pc = "raised"]
            /\ UNCHANGED <<nb, writes, rng>>
       ELSE /\ draws = SeededDraws(rng[task[t].proc], Len(nb[ref[1]][ref[2]].list))
            /\ rng' = [rng EXCEPT ![task[t].proc] = rng[task[t].proc] + Len(draws)]
            /\ IF MaskSum(RandomMask(draws)) = 0
                 THEN \* continue
                      /\ task' = [task EXCEPT
                                    ![t].k = task[t].k + 1,
                                    ![t].pc = IF task[t].k = Len(refs) THEN "return" ELSE "lock"]
                      /\ UNCHANGED <<nb, writes>>
                 ELSE IF PoolDmatTable[data[ref[1]][ref[2]]][RandomMask(draws)].raised # "no"
                   THEN /\ task' = [task EXCEPT ![t].pc = "raised"]
                        /\ UNCHANGED <<nb, writes>>
                   ELSE /\ task' =
                             [task EXCEPT
                                ![t].acc = PoolDmatAdd(task[t].acc, Len(draws), RandomMask(draws),
                                             PoolDmatTable[data[ref[1]][ref[2]]][RandomMask(draws)]),
                                ![t].k = task[t].k + 1,
                                ![t].pc = IF task[t].k = Len(refs) THEN "return" ELSE "lock"]
                        /\ nb' = [nb EXCEPT ![ref[1]][ref[2]] = NoneAttribute]
                        /\ writes' = writes \cup {Write(t, "compute_dmat", ref)}
  /\ UNCHANGED <<mode, nproc, data, cpu_data, lock, pc, counter, dm, ret, pool_other_vars>>

\* the reshape and the return of compute_dmat
PoolDmatReturn(t) ==
  /\ mode = "pool_dmat" /\ pc = "map" /\ task[t].pc = "return"
  /\ task' = [task EXCEPT ![t].ret = PoolDmatResult(task[t].acc), ![t].pc = "done"]
  /\ UNCHANGED <<mode, nproc, data, cpu_data, lock, nb, writes, rng, pc, counter, dm, ret,
                 pool_other_vars>>

\* pool.map returns the list of the results, or raises what a task raised
PoolMapReturn ==
  /\ mode \in PoolModes /\ pc = "map"
  /\ \A t \in DOMAIN task : task[t].pc \in {"done", "raised"}
  /\ IF \E t \in DOMAIN task : task[t].pc = "raised"
       THEN pc' = "raised" /\ dm' = dm
       ELSE pc' = "done" /\ dm' = [t \in DOMAIN task |-> task[t].ret]
  /\ UNCHANGED <<mode, nproc, pool_vars, counter, ret, pool_other_vars>>

PoolInit ==
  /\ mode \in PoolModes
  /\ pc = "partition"
  /\ nproc \in NProcVals
  /\ data \in [Healpixs -> {<<>>} \cup {<<f>> : f \in (IF mode = "pool_xi" THEN PoolForests
                                                      ELSE PoolDmatForests)}]
  \* the pixels that hold no object hold forests of two pixels only
  /\ \A h \in Healpixs : (PoolObjs[h] = <<>> /\ data[h] # <<>>) => data[h][1] \in PoolDmatForests
  /\ cpu_data = <<>> /\ lock = 0 /\ task = <<>>
  /\ rng = [p \in 1 .. nproc |-> 0]
  /\ nb = [h \in Healpixs |-> [i \in DOMAIN data[h] |-> NoAttribute]]
  /\ writes = {}
  /\ counter = 0 /\ dm = <<>> /\ ret = "none"
  /\ ndone = 0 /\ delta = "none" /\ neighbours = "none" /\ rand = <<>>
  /\ added = NoneAdded
  /\ reject = IF mode = "pool_dmat" THEN 2 ELSE 0
  /\ xi = ZeroArr(NumBins) /\ weights = ZeroArr(NumBins)
  /\ r_par = ZeroArr(NumBins) /\ z = ZeroArr(NumBins) /\ r_trans = ZeroArr(NumBins)
  /\ num_pairs = 0
  /\ dmat = ZeroFracArr(NumBins * NumModelBins)
  /\ weights_dmat = ZeroArr(NumBins)
  /\ r_par_eff = ZeroArr(NumModelBins) /\ r_trans_eff = ZeroArr(NumModelBins)
  /\ z_eff = ZeroArr(NumModelBins) /\ weight_eff = ZeroArr(NumModelBins)
  /\ num_pairs_used = 0
  /\ wick = WickZero /\ max_diagram = 4 /\ bounds_checked = TRUE
  /\ cfWick_given = TRUE /\ calls = <<>> /\ dneighs = <<>>

PoolNext ==
  \/ \E keys \in KeyOrders : PoolPartition(keys)
  \/ \E t \in DOMAIN task : \E p \in DOMAIN rng : PoolStart(t, p)
  \/ \E t \in DOMAIN task : PoolFillNeighs(t, GroupDeltas(cpu_data[t]))
  \/ \E t \in DOMAIN task : PoolAcquire(t)
  \/ \E t \in DOMAIN task : PoolRead(t)
  \/ \E t \in DOMAIN task : PoolWrite(t)
  \/ \E t \in DOMAIN task : \E ref \in DeltaRefs :
       PoolXiBody(t, GroupDeltas(cpu_data[t]), ref)
  \/ \E t \in DOMAIN task : PoolXiReturn(t)
  \/ \E t \in DOMAIN task : \E ref \in DeltaRefs :
       PoolDmatBody(t, GroupDeltas(cpu_data[t]), ref,
                    SeededDraws(rng[task[t].proc], Len(nb[ref[1]][ref[2]].list)))
  \/ \E t \in DOMAIN task : PoolDmatReturn(t)
  \/ PoolMapReturn

PoolSpec == PoolInit /\ [][PoolNext]_vars

\* ------------------------------------------------------------------------
\* compute_xi_forest_pairs on its own, over weights that may vanish
\* ------------------------------------------------------------------------
\* h['WEIGHT'] is read as it stands: a pixel may have the weight 0
WeightVals == {0, 1, 2}
WeightSeqs == UNION {[1 .. n -> WeightVals] : n \in {1, 2}}
WithWeights(d, w) ==
  [thingid |-> d.thingid, z_qso |-> d.z_qso, log_lambda |-> d.log_lambda,
   z |-> d.z, r_comov |-> d.r_comov, dist_m |-> d.dist_m,
   weights |-> w, delta |-> d.delta, neighbours |-> d.neighbours]
PairsDeltas ==
  {WithWeights(p[1], p[2]) :
     p \in {q \in XiDeltas \X WeightSeqs : Len(q[1].weights) = Len(q[2])}}

\* the call of compute_xi_forest_pairs in the loop body of compute_xi
ForestPairsCall ==
  /\ mode = "compute_xi_forest_pairs" /\ pc = "call"
  /\ ret' = compute_xi_forest_pairs(delta, delta.neighbours)
  /\ pc' = "returned"
  /\ UNCHANGED <<cfg_vars, pool_vars, wickT_vars,
                 ndone, counter, delta, neighbours, num_pairs,
                 xi_vars, dmat_vars, rand_vars, wick, dm>>

\* num_pairs[:len(rebin_num_pairs)] += rebin_num_pairs.astype(int), and the
\* five additions before it
ForestPairsAdd ==
  /\ mode = "compute_xi_forest_pairs" /\ pc = "returned" /\ ndone = 0
  /\ ndone' = ndone + 1
  /\ XiAccumulate(delta, ret)
  /\ UNCHANGED <<cfg_vars, pool_vars, wickT_vars,
                 counter, delta, dmat_vars, rand_vars, wick, dm, ret>>

PairsInit ==
  /\ mode = "compute_xi_forest_pairs"
  /\ pc = "call"
  /\ delta \in PairsDeltas
  /\ ndone = 0 /\ counter = 0
  /\ neighbours = delta.neighbours /\ rand = <<>>
  /\ added = NoneAdded
  /\ reject = 0
  /\ xi = ZeroArr(NumBins) /\ weights = ZeroArr(NumBins)
  /\ r_par = ZeroArr(NumBins) /\ z = ZeroArr(NumBins) /\ r_trans = ZeroArr(NumBins)
  /\ num_pairs = ZeroArr(NumBins)
  /\ dmat = ZeroFracArr(NumBins * NumModelBins)
  /\ weights_dmat = ZeroArr(NumBins)
  /\ r_par_eff = ZeroArr(NumModelBins) /\ r_trans_eff = ZeroArr(NumModelBins)
  /\ z_eff = ZeroArr(NumModelBins) /\ weight_eff = ZeroArr(NumModelBins)
  /\ num_pairs_used = 0
  /\ wick = WickZero /\ max_diagram = 4 /\ bounds_checked = TRUE
  /\ nproc = 1 /\ dm = <<>> /\ ret = "none"
  /\ data = <<>> /\ cpu_data = <<>> /\ lock = 0 /\ task = <<>>
  /\ nb = <<>> /\ writes = {} /\ rng = <<>>
  /\ cfWick_given = TRUE /\ calls = <<>> /\ dneighs = <<>>

PairsNext ==
  \/ ForestPairsCall
  \/ ForestPairsAdd

PairsSpec == PairsInit /\ [][PairsNext]_vars

\* ------------------------------------------------------------------------
\* wickT: the loop over the forests and the forests near them
\* ------------------------------------------------------------------------
\* the forests d3 of d1.dneighs, the forests d1 of a healpix (one of them
\* has a pair whose bin lies past the last one), and the lists d1.dneighs
WickTForests ==
  {d \in WickDeltas :
     /\ d.log_lambda = <<0, 1>>
     /\ d.neighbours \in {<<>>, <<Neighbour(Obj2, AngB)>>,
                          <<Neighbour(Obj1, AngA), Neighbour(Obj2, AngB)>>}}
WickTDeltas ==
  WickTForests \cup
    {d \in WickDeltas :
       d.log_lambda = <<1, 2>> /\ d.neighbours = <<Neighbour(Obj1, AngB)>>}
WickDNeighs ==
  {<<>>} \cup {<<d3>> : d3 \in {d \in WickTForests : Len(d.neighbours) = 2}}
    \cup {<<d3, d4>> : d3 \in {d \in WickTForests : Len(d.neighbours) = 0},
                       d4 \in {d \in WickTForests : Len(d.neighbours) = 1}}

\* sp.in1d(a, b): which objects of a are among those of b
In1d(a, b) == [k \in DOMAIN a |-> \E n \in DOMAIN b : b[n].thingid = a[k].thingid]
ThingidsOf(nbs) == [k \in DOMAIN nbs |-> nbs[k].thingid]

\* max_diagram == 5: the neighbours of d1 that d3 has too
WickTCommon(d1, d3) == SelectSeq2(d1.neighbours, In1d(d1.neighbours, d3.neighbours))

\* the additions of the call of fill_wickT56 for d1 and d3 when max_diagram
\* is 5: both neighbour lists cut down to the common objects
WickTTable ==
  [d1 \in WickTDeltas, d3 \in WickTForests |->
     fill_wickT56(WithNeighbours(d1, WickTCommon(d1, d3)),
                  WithNeighbours(d3, WickTCommon(d3, d1)), WickAng13, 5)]

\* the state of a pass: the arrays, whether an exception escaped, the calls
WickTResult(mem, raised, cs) == [mem |-> mem, raised |-> raised, calls |-> cs]

\* the call fill_wickT56(t_ang12, ..., t_thingid2, thingid4, T5, T6), r being
\* what its additions made of the arrays
WickTAfterCall(res, r, t_thingid2, thingid4) ==
  WickTResult(r.mem, r.raised,
              Append(res.calls, [t_thingid2 |-> t_thingid2, thingid4 |-> thingid4]))

\* the body of the loop over d1.dneighs for the forest d3
WickTInner(res, d1, d3, diag, checked) ==
  IF Len(d3.neighbours) = 0 THEN res
  ELSE IF diag = 5
    THEN IF MaskSum(In1d(d1.neighbours, d3.neighbours)) = 0 THEN res
         ELSE WickTAfterCall(res, WickApply(res.mem, WickTTable[d1, d3], 1, checked),
                             ListAttribute(ThingidsOf(WickTCommon(d1, d3))),
                             ListAttribute(ThingidsOf(WickTCommon(d3, d1))))
    ELSE \* t_ang12 is a local that no statement has assigned:
         \* UnboundLocalError when the call evaluates its arguments
         WickTAfterCall(res, [mem |-> res.mem, raised |-> TRUE],
                        NoAttribute, ListAttribute(ThingidsOf(d3.neighbours)))

\* for d3 in sp.array(d1.dneighs), from the k-th forest on
RECURSIVE WickTLoop(_, _, _, _, _, _)
WickTLoop(res, d1, dn, k, diag, checked) ==
  IF k > Len(dn) \/ res.raised THEN res
  ELSE WickTLoop(WickTInner(res, d1, dn[k], diag, checked), d1, dn, k + 1, diag, checked)

\* the higher orders run whatever cfWick and max_diagram are
WickTHigherOrderAlways(r, d1, dn) ==
  IF r.raised
    THEN WickTResult(r.mem, r.raised, calls)
    ELSE WickTLoop(WickTResult(r.mem, FALSE, calls), d1, dn, 1,
                   IF max_diagram <= 4 THEN 5 ELSE max_diagram, bounds_checked)

\* what follows the call of fill_wickT1234 in the loop body, r being what
\* its additions made of the arrays
WickTHigherOrder(r, d1, dn) ==
  IF r.raised \/ ~cfWick_given \/ max_diagram <= 4
    THEN WickTResult(r.mem, r.raised, calls)
    ELSE WickTLoop(WickTResult(r.mem, FALSE, calls), d1, dn, 1, max_diagram,
                   bounds_checked)

WickTDone(res) ==
  /\ wick' = res.mem
  /\ calls' = res.calls
  /\ pc' = IF res.raised THEN "raised" ELSE pc

\* one pass of the loop over the healpixs, the healpix holding the one
\* forest d1 with d1.dneighs = dn, sp.random.rand returning draw
WickTHealpix(d1, dn, draw) ==
  /\ mode = "wickT" /\ pc = "loop" /\ ndone < MaxDeltas
  /\ ndone' = ndone + 1
  /\ rand' = <<draw>>
  /\ num_pairs' = num_pairs + 1
  /\ num_pairs_used' = num_pairs_used + MaskSum(RandomMask(<<draw>>))
  /\ IF MaskSum(RandomMask(<<draw>>)) = 0
       THEN UNCHANGED <<pc, counter, delta, dneighs, wick, calls>>
       ELSE /\ delta' = d1
            /\ dneighs' = dn
            /\ counter' = counter + 1
            /\ IF Len(d1.neighbours) = 0
                 THEN UNCHANGED <<pc, wick, calls>>
                 ELSE WickTDone(WickTHigherOrder(
                        WickApply(wick, fill_wickT1234(d1), 1, bounds_checked), d1, dn))
  /\ UNCHANGED <<cfg_vars, pool_vars, cfWick_given, neighbours, xi_vars, dmat_vars,
                 added, dm, ret>>

\* return wAll, num_pairs_wick, num_pairs, num_pairs_used, T1, ..., T6
WickTReturn ==
  /\ mode = "wickT" /\ pc = "loop"
  /\ ret' = [wick |-> wick, num_pairs |-> num_pairs, num_pairs_used |-> num_pairs_used]
  /\ pc' = "done"
  /\ UNCHANGED <<cfg_vars, pool_vars, wickT_vars, ndone, counter, delta, neighbours,
                 num_pairs, xi_vars, dmat_vars, rand_vars, wick, dm>>

WickTInit ==
  /\ mode = "wickT"
  /\ pc = "loop"
  /\ cfWick_given \in BOOLEAN
  /\ max_diagram \in {4, 5, 6}
  /\ bounds_checked \in BOOLEAN
  /\ calls = <<>> /\ dneighs = <<>>
  /\ ndone = 0 /\ counter = 0
  /\ delta = "none" /\ neighbours = "none" /\ rand = <<>>
  /\ added = NoneAdded
  /\ reject = 0
  /\ xi = ZeroArr(NumBins) /\ weights = ZeroArr(NumBins)
  /\ r_par = ZeroArr(NumBins) /\ z = ZeroArr(NumBins) /\ r_trans = ZeroArr(NumBins)
  /\ num_pairs = 0
  /\ dmat = ZeroFracArr(NumBins * NumModelBins)
  /\ weights_dmat = ZeroArr(NumBins)
  /\ r_par_eff = ZeroArr(NumModelBins) /\ r_trans_eff = ZeroArr(NumModelBins)
  /\ z_eff = ZeroArr(NumModelBins) /\ weight_eff = ZeroArr(NumModelBins)
  /\ num_pairs_used = 0
  /\ wick = WickZero
  /\ nproc = 1 /\ dm = <<>> /\ ret = "none"
  /\ data = <<>> /\ cpu_data = <<>> /\ lock = 0 /\ task = <<>>
  /\ nb = <<>> /\ writes = {} /\ rng = <<>>

WickTNext ==
  \/ \E d1 \in WickTDeltas, dn \in WickDNeighs, draw \in DrawVals : WickTHealpix(d1, dn, draw)
  \/ WickTReturn

WickTSpec == WickTInit /\ [][WickTNext]_vars

\* ------------------------------------------------------------------------
\* fill_neighs for one delta
\* ------------------------------------------------------------------------
\* deltas of one or two pixels, r_comov ascending, on the line of sight of
\* Obj1 or of no object, at any of the angles to Obj1 and to Obj2
NeighsAngles == {Ang0, AngA, AngB, AngC, AngD}
NeighsDeltas ==
  {AtSky(MakeForest(pos, tid, 8), <<a1, a2>>) :
     pos \in PosSeqs({1, 2}), tid \in {1, 3}, a1 \in NeighsAngles, a2 \in NeighsAngles}

\* the loop body of fill_neighs for the delta: delta.neighbours = ...
FillNeighs ==
  /\ mode = "fill_neighs" /\ pc = "call"
  /\ neighbours' = fill_neighs(delta)
  /\ pc' = "done"
  /\ UNCHANGED <<cfg_vars, pool_vars, wickT_vars, ndone, counter, delta, num_pairs,
                 xi_vars, dmat_vars, rand_vars, wick, dm, ret>>

NeighsInit ==
  /\ mode = "fill_neighs"
  /\ pc = "call"
  /\ delta \in NeighsDeltas
  /\ neighbours = <<>>
  /\ cfWick_given = TRUE /\ calls = <<>> /\ dneighs = <<>>
  /\ max_diagram = 4 /\ bounds_checked = FALSE
  /\ ndone = 0 /\ counter = 0
  /\ rand = <<>>
  /\ added = NoneAdded
  /\ reject = 0
  /\ xi = ZeroArr(NumBins) /\ weights = ZeroArr(NumBins)
  /\ r_par = ZeroArr(NumBins) /\ z = ZeroArr(NumBins) /\ r_trans = ZeroArr(NumBins)
  /\ num_pairs = 0
  /\ dmat = ZeroFracArr(NumBins * NumModelBins)
  /\ weights_dmat = ZeroArr(NumBins)
  /\ r_par_eff = ZeroArr(NumModelBins) /\ r_trans_eff = ZeroArr(NumModelBins)
  /\ z_eff = ZeroArr(NumModelBins) /\ weight_eff = ZeroArr(NumModelBins)
  /\ num_pairs_used = 0
  /\ wick = WickZero
  /\ nproc = 1 /\ dm = <<>> /\ ret = "none"
  /\ data = <<>> /\ cpu_data = <<>> /\ lock = 0 /\ task = <<>>
  /\ nb = <<>> /\ writes = {} /\ rng = <<>>

NeighsNext == FillNeighs

NeighsSpec == NeighsInit /\ [][NeighsNext]_vars

\* ------------------------------------------------------------------------
\* Properties: helpers
\* ------------------------------------------------------------------------
\* the sum of an array indexed from 0
SumArr(a) == SumSeq([k \in 1 .. Cardinality(DOMAIN a) |-> a[k - 1]])

\* a pair strictly inside the selection window, by its separations alone
StrictlyInside(p) ==
  /\ p.r_par > r_par_min /\ p.r_par < r_par_max
  /\ p.r_trans < r_trans_max

InsideWeightOf(prs) ==
  SumSeq([k \in DOMAIN prs |-> IF StrictlyInside(prs[k]) THEN prs[k].weights12 ELSE 0])
InsideCountOf(prs) ==
  SumSeq([k \in DOMAIN prs |-> IF StrictlyInside(prs[k]) THEN 1 ELSE 0])
OnAnEdge(prs) ==
  /\ \E k \in DOMAIN prs : prs[k].r_par = r_par_min /\ prs[k].r_trans < r_trans_max
  /\ \E k \in DOMAIN prs : prs[k].r_trans = r_trans_max

\* the weight and the number of the pairs of a delta that lie strictly
\* inside the window, and whether it has pairs on the window's edges
InsideOf(prs) ==
  [weight |-> InsideWeightOf(prs), count |-> InsideCountOf(prs),
   edge |-> OnAnEdge(prs)]
Inside == [d \in XiDeltas \cup DmatForests |-> InsideOf(AllPairs(d, d.neighbours))]
WickInside ==
  [d \in WickDeltas |->
     InsideOf(AllPairs(UseRComov(d),
                       [k \in DOMAIN d.neighbours |-> UseRComov(d.neighbours[k])]))]

\* the delta of the last pass of compute_dmat with the neighbours that the
\* pass handed to compute_dmat_forest_pairs
KeptDelta == WithNeighbours(delta, SelectSeq2(delta.neighbours, RandomMask(rand)))

\* ------------------------------------------------------------------------
\* C1
\* ------------------------------------------------------------------------
C1_XiStep ==
  (mode = "compute_xi" /\ ndone' = ndone + 1) =>
    /\ SumArr(weights') - SumArr(weights)
         = (IF pc' = "raised" THEN 0 ELSE Inside[delta'].weight)
    /\ SumArr(num_pairs') - SumArr(num_pairs)
         = (IF pc' = "raised" THEN 0 ELSE Inside[delta'].count)
    /\ (Inside[delta'].count = 0) => UNCHANGED <<xi_vars, num_pairs>>

C1_DmatStep ==
  (mode = "compute_dmat" /\ ndone' = ndone + 1) =>
    /\ SumArr(weights_dmat') - SumArr(weights_dmat)
         = (IF pc' = "raised" THEN 0 ELSE Inside[KeptDelta'].weight)
    /\ SumArr(weight_eff') - SumArr(weight_eff) <= Inside[KeptDelta'].weight
    /\ (pc' # "raised") =>
         SumArr(weight_eff') - SumArr(weight_eff) = Inside[KeptDelta'].weight
    /\ (Inside[KeptDelta'].count = 0) => UNCHANGED dmat_vars

C1_WickStep ==
  (mode = "fill_wickT" /\ ndone' = ndone + 1) =>
    /\ SumArr(wick'["wAll"]) - SumArr(wick["wAll"]) <= WickInside[delta'].weight
    /\ SumArr(wick'["num_pairs_wick"]) - SumArr(wick["num_pairs_wick"])
         <= WickInside[delta'].count
    /\ (WickInside[delta'].count = 0) => UNCHANGED wick

\* C1: the selection window is strict on every edge.  In each pass of
\* compute_xi and compute_dmat, and in each call of fill_wickT1234, the
\* weight and the count that the accumulators gain are those of the pairs
\* with r_par_min < r_par < r_par_max and r_trans < r_trans_max and of no
\* other pair; a pass none of whose pairs is strictly inside the window
\* changes no accumulator.
C1_StrictWindow == [][C1_XiStep /\ C1_DmatStep /\ C1_WickStep]_vars

\* a pass of compute_xi over a delta with a pair at r_par = r_par_min, a
\* pair at r_trans = r_trans_max and a pair inside: only the last one counted
C1_Witness ==
  /\ mode = "compute_xi" /\ ndone = 1 /\ pc = "loop"
  /\ Inside[delta].edge
  /\ Inside[delta].weight > 0
  /\ SumArr(weights) = Inside[delta].weight

\* ------------------------------------------------------------------------
\* C2
\* ------------------------------------------------------------------------
\* whether every pair of the masked arrays has a data bin of the grid
BinsInRangeOf(prs) == \A k \in DOMAIN prs : prs[k].bins \in Bins
BinsInRange ==
  [d \in XiDeltas \cup DmatDeltas |-> BinsInRangeOf(WindowPairs(d, d.neighbours))]

\* C2: every pair that passes the window has a flat data-bin index in
\* 0 .. num_bins_r_par*num_bins_r_trans - 1, in compute_xi for the pairs of
\* the delta and in compute_dmat for those of the retained neighbours.
C2_BinInRange ==
  /\ (mode = "compute_xi" /\ ndone > 0) => BinsInRange[delta]
  /\ (mode = "compute_dmat" /\ ndone > 0) => BinsInRange[KeptDelta]

\* ------------------------------------------------------------------------
\* C3
\* ------------------------------------------------------------------------
\* C3: in both distortion-matrix engines a pair adds its weight to a data
\* bin of weights_dmat exactly when it adds it to a model bin of weight_eff:
\* the pairs of a pass that reached weights_dmat are those that reached
\* weight_eff.
C3_DataIffModel ==
  (mode \in {"compute_dmat", "compute_metal_dmat"} /\ pc # "raised") =>
    added.data = added.model

\* ------------------------------------------------------------------------
\* C4
\* ------------------------------------------------------------------------
\* C4: in what compute_xi and xcf1d return, a bin whose summed weight is
\* zero holds zero in every normalised array (it was not divided), and a bin
\* with weight holds its sum over its weight.
C4_ZeroWeightBinsStayZero ==
  (mode \in {"compute_xi", "xcf1d"} /\ pc = "done") =>
    \A b \in DOMAIN weights :
      /\ (weights[b] = 0) =>
           /\ ret.xi[b] = <<0, 1>> /\ ret.r_par[b] = <<0, 1>>
           /\ ret.z[b] = <<0, 1>>
           /\ (mode = "compute_xi") => ret.r_trans[b] = <<0, 1>>
      /\ (weights[b] > 0) =>
           /\ ret.xi[b] = Frac(xi[b], weights[b])
           /\ ret.z[b] = Frac(z[b], weights[b])

\* compute_xi returned after passes that left some bins with weight and
\* some without
C4_Witness ==
  /\ mode = "compute_xi" /\ pc = "done"
  /\ \E b \in Bins : weights[b] = 0 /\ ret.xi[b] = <<0, 1>>
  /\ \E b \in Bins : weights[b] > 0 /\ xi[b] # 0

\* ------------------------------------------------------------------------
\* C5
\* ------------------------------------------------------------------------
\* C5: the driver divides only the entries whose summed data-bin weight is
\* not zero: an entry of the normalised matrix whose weight is zero is zero.
C5_DriverDividesNonZeroOnly ==
  (mode = "do_dmat" /\ pc = "done") =>
    \A i \in DriverBins, j \in DriverBins :
      (ret.wdm[j] = 0) => ret.dm[i][j] = <<0, 1>>

\* ------------------------------------------------------------------------
\* C6
\* ------------------------------------------------------------------------
\* C6: what compute_dmat returns obeys the reject law: with reject = 0 every
\* neighbour was retained and num_pairs_used = num_pairs; with reject = 1
\* none was, num_pairs_used = 0 and every accumulator is zero.
C6_RejectLaw ==
  (mode = "compute_dmat" /\ pc = "done") =>
    /\ (reject = 0) => ret.num_pairs_used = ret.num_pairs
    /\ (reject = 4) =>
         /\ ret.num_pairs_used = 0
         /\ ret.weights_dmat = ZeroArr(NumBins)
         /\ ret.weight_eff = ZeroArr(NumModelBins)
         /\ dmat = ZeroFracArr(NumBins * NumModelBins)

\* ------------------------------------------------------------------------
\* C7
\* ------------------------------------------------------------------------
\* the objects of the last pass that the random draw retained
RetainedThingids ==
  {delta.neighbours[k].thingid : k \in {n \in DOMAIN rand : rand[n] > reject}}

\* C7: in compute_metal_dmat the objects that add to the accumulators in a
\* pass are among those the random draw retained, and with reject = 1 no
\* neighbour is used and every accumulator stays zero.
C7_MetalUsesRetained ==
  (mode = "compute_metal_dmat") =>
    /\ \A p \in added.data \cup added.model : p[2] \in RetainedThingids
    /\ (reject = 4) =>
         /\ num_pairs_used = 0
         /\ weights_dmat = ZeroArr(NumBins)
         /\ weight_eff = ZeroArr(NumModelBins)
         /\ dmat = ZeroFracArr(NumBins * NumModelBins)

\* ------------------------------------------------------------------------
\* C8
\* ------------------------------------------------------------------------
\* C8: after any sequence of calls of fill_wickT1234 and fill_wickT56 from
\* zero arrays, each of T2 .. T6 equals its transpose.
C8_WickSymmetric ==
  (mode = "fill_wickT") =>
    \A m \in {"T2", "T3", "T4", "T5", "T6"} : \A i \in Bins, j \in Bins :
      wick[m][i * NumBins + j] = wick[m][j * NumBins + i]

\* ------------------------------------------------------------------------
\* C9
\* ------------------------------------------------------------------------
\* C9: after any sequence of calls of compute_dmat_forest_pairs the total of
\* weights_dmat equals the total of weight_eff, also when a slice addition
\* of the last pass raised.
C9_Conservation ==
  (mode = "compute_dmat") => SumArr(weights_dmat) = SumArr(weight_eff)

\* two passes that put weight into two data bins or more
C9_Witness ==
  /\ mode = "compute_dmat" /\ ndone = 2 /\ pc = "loop"
  /\ Cardinality({b \in Bins : weights_dmat[b] > 0}) >= 2
  /\ Cardinality({m \in ModelBins : weight_eff[m] > 0}) >= 2
  /\ SumArr(weights_dmat) = SumArr(weight_eff)

\* ------------------------------------------------------------------------
\* C10
\* ------------------------------------------------------------------------
RECURSIVE FracSum(_)
FracSum(s) == IF s = <<>> THEN Whole(0) ELSE FracAdd(Head(s), FracSum(Tail(s)))

\* the sum of the entries of data bin b of dmat over the model bins
RowSum(b) == FracSum([n \in 1 .. NumModelBins |-> dmat[(n - 1) + NumModelBins * b]])

\* one forest of two pixels with one object
SmallCase ==
  /\ mode = "compute_dmat" /\ ndone = 1
  /\ Len(delta.log_lambda) = 2
  /\ Len(KeptDelta.neighbours) = 1

\* C10: for a single forest of two pixels and one neighbour object, the
\* entries of each data bin of dmat sum to zero over the model bins.
C10_RowsSumToZero == SmallCase => \A b \in Bins : RowSum(b) = <<0, 1>>

\* such a pass with both pixels in the window
C10_Witness ==
  /\ SmallCase /\ pc = "loop"
  /\ Cardinality(added.data) = 2
  /\ SumArr(weights_dmat) > 0
  /\ \A b \in Bins : RowSum(b) = <<0, 1>>

\* ------------------------------------------------------------------------
\* C11
\* ------------------------------------------------------------------------
\* what the pair p adds to dmat[idx] when only the identity and the
\* mean-subtraction term eta2 are applied, times the common denominator
Order0PairAdd(f, prs, p, idx) ==
  (IF p.model_bins + NumModelBins * p.bins = idx
     THEN p.weights12 * SumWeights(f) * SumWeightsSquare(f) ELSE 0)
  - SumSeq([n \in 1 .. NumModelBins |->
      IF (n - 1) + NumModelBins * p.bins = idx
        THEN p.weights12
             * SumSeq([k \in DOMAIN prs |->
                 IF prs[k].j = p.j /\ prs[k].model_bins = n - 1
                   THEN f.weights[prs[k].i] * SumWeightsSquare(f) ELSE 0])
        ELSE 0])

Order0Add(f, prs, idx) ==
  FracAdd(Whole(0),
          Frac(SumSeq([k \in DOMAIN prs |-> Order0PairAdd(f, prs, prs[k], idx)]),
               SumWeights(f) * SumWeightsSquare(f)))

Order0Dmat ==
  [d \in DmatForests |->
     [idx \in 0 .. (NumBins * NumModelBins - 1) |->
        Order0Add(d, WindowPairs(d, d.neighbours), idx)]]

\* C11: the linear-term correction eta4 is applied to forests of fit order 1
\* only: after one pass of compute_dmat over a delta of order 0 the matrix
\* holds the identity and the mean-subtraction term and nothing else.
C11_Eta4OnlyForOrder1 ==
  (mode = "compute_dmat" /\ ndone = 1 /\ pc = "loop" /\ delta.order = 0)
    => dmat = Order0Dmat[KeptDelta]

\* ------------------------------------------------------------------------
\* C12
\* ------------------------------------------------------------------------
\* the deltas for which the task t has left the locked region of compute_xi
DeltasCounted(t) ==
  IF task[t].pc \in {"queued", "fill_neighs"} THEN 0
  ELSE IF task[t].pc \in {"body", "raised"} THEN task[t].k
  ELSE task[t].k - 1

C12_Step ==
  /\ counter' >= counter
  /\ (counter' # counter) =>
       /\ counter' = counter + 1
       /\ lock # 0 /\ task[lock].pc = "write" /\ task'[lock].pc = "body"
       /\ \A t \in DOMAIN task : (t # lock) => task[t].pc \notin {"read", "write"}
  /\ \A t \in DOMAIN task' : task'[t].incs = DeltasCounted(t)'
  /\ counter' = SumSeq([t \in DOMAIN task' |-> task'[t].incs])
  /\ (pc' = "done") => (counter' = num_data)

\* C12: under every interleaving of the tasks that run compute_xi on the
\* groups of the partition, the shared counter changes only by an increment
\* of one, made by the task that holds the lock while no other task is
\* inside the locked region; each delta a task goes through is counted once, no
\* increment is lost, and the counter equals num_data when pool.map returns.
C12_CounterUnderLock == [][C12_Step]_vars

\* a task waits for the lock while the other is about to store the counter
C12_Witness ==
  /\ mode = "pool_xi" /\ lock # 0 /\ counter >= 1
  /\ task[lock].pc = "write"
  /\ \E t \in DOMAIN task : t # lock /\ task[t].pc = "lock" /\ task[t].incs >= 1

\* ------------------------------------------------------------------------
\* C13
\* ------------------------------------------------------------------------
\* C13: every attribute write of a task running fill_neighs and then
\* compute_xi is a write of the field neighbours of a delta of a healpix of
\* the task's own group; no other field of a delta and no field of an
\* object is written.
C13_OnlyOwnNeighbours ==
  (mode \in PoolModes) =>
    \A wr \in writes :
      /\ wr.field = "neighbours"
      /\ \E k \in DOMAIN cpu_data[wr.by] : cpu_data[wr.by][k] = wr.healpix
      /\ \A t \in DOMAIN cpu_data :
           (\E k \in DOMAIN cpu_data[t] : cpu_data[t][k] = wr.healpix) => t = wr.by

\* both tasks have assigned and cleared the neighbours of their deltas
C13_Witness ==
  /\ mode = "pool_xi" /\ pc = "done" /\ Len(cpu_data) = 2
  /\ \A t \in DOMAIN task :
       /\ \E wr \in writes : wr.by = t /\ wr.in = "fill_neighs"
       /\ \E wr \in writes : wr.by = t /\ wr.in = "compute_xi"

\* ------------------------------------------------------------------------
\* C14, C15
\* ------------------------------------------------------------------------
\* one call of compute_xi over the deltas refs, none of which raises
XiOneDelta(acc, d) ==
  IF Len(FillNeighsTable[d]) # 0 THEN PoolXiAdd(acc, PoolXiTable[d]) ELSE acc
RECURSIVE XiOver(_, _)
XiOver(refs, acc) ==
  IF refs = <<>> THEN acc
  ELSE XiOver(Tail(refs), XiOneDelta(acc, data[Head(refs)[1]][Head(refs)[2]]))

\* the sum of the arrays the tasks returned, divided by the summed weights
SumOfParts(field, b) == SumSeq([t \in DOMAIN dm |-> dm[t][field][b]])
FracDiv(a, n) == Frac(a[1], a[2] * n)
ReducedXi(b) ==
  IF SumOfParts("weights", b) > 0
    THEN FracDiv(FracSum([t \in DOMAIN dm |-> dm[t].xi[b]]), SumOfParts("weights", b))
    ELSE FracSum([t \in DOMAIN dm |-> dm[t].xi[b]])

\* C14: the sum over the partitions of the arrays compute_xi returned,
\* divided by the summed weights, is the correlation one call of compute_xi
\* over all the pixels returns.
C14_ReductionIsWholeRun ==
  (mode = "pool_xi" /\ pc = "done") =>
    \A b \in Bins :
      ReducedXi(b) = PoolXiResult(XiOver(DeltasFrom(0), PoolXiZero)).xi[b]

\* C15: weights and num_pairs of compute_xi over the union of the groups
\* are the elementwise sums of the arrays of the groups, in whichever order
\* the pixels of the union are gone through (the weighted sums of the model
\* are exact).
C15_MergeIsSum ==
  (mode = "pool_xi" /\ pc = "done") =>
    \A b \in Bins :
      /\ SumOfParts("weights", b) = XiOver(DeltasFrom(0), PoolXiZero).weights[b]
      /\ SumOfParts("num_pairs", b) = XiOver(DeltasFrom(0), PoolXiZero).num_pairs[b]
      /\ SumOfParts("weights", b) = XiOver(Reverse(DeltasFrom(0)), PoolXiZero).weights[b]
      /\ SumOfParts("num_pairs", b) = XiOver(Reverse(DeltasFrom(0)), PoolXiZero).num_pairs[b]

\* two groups that both put weight into the same bin
C15_Witness ==
  /\ mode = "pool_xi" /\ pc = "done" /\ Len(dm) = 2
  /\ \E b \in Bins : dm[1].weights[b] > 0 /\ dm[2].weights[b] > 0
  /\ \A b \in Bins :
       SumOfParts("weights", b) = XiOver(DeltasFrom(0), PoolXiZero).weights[b]

\* ------------------------------------------------------------------------
\* C16
\* ------------------------------------------------------------------------
\* compute_dmat over the deltas refs by a process that has made `from` draws
DmatOneDelta(acc, d, w) ==
  IF MaskSum(w) = 0 THEN acc ELSE PoolDmatAdd(acc, Len(w), w, PoolDmatTable[d][w])
RECURSIVE DmatOver(_, _, _)
DmatOver(refs, from, acc) ==
  IF refs = <<>> THEN acc
  ELSE DmatOver(Tail(refs),
                from + Len(FillNeighsTable[data[Head(refs)[1]][Head(refs)[2]]]),
                DmatOneDelta(acc, data[Head(refs)[1]][Head(refs)[2]],
                  RandomMask(SeededDraws(from,
                    Len(FillNeighsTable[data[Head(refs)[1]][Head(refs)[2]]])))))

\* C16: with the seed, the data and the partition fixed, the run returns
\* the same weights_dmat, dmat, num_pairs and num_pairs_used whatever the
\* interleaving of the processes: what each task returns is what it returns
\* in the run where every task is taken by a process of its own.
C16_SameSeedSameResult ==
  (mode = "pool_dmat" /\ pc = "done") =>
    \A t \in DOMAIN dm :
      /\ dm[t].num_pairs_used
           = DmatOver(GroupDeltas(cpu_data[t]), 0, PoolDmatZero).num_pairs_used
      /\ dm[t].num_pairs = DmatOver(GroupDeltas(cpu_data[t]), 0, PoolDmatZero).num_pairs
      /\ dm[t].weights_dmat
           = DmatOver(GroupDeltas(cpu_data[t]), 0, PoolDmatZero).weights_dmat
      /\ dm[t].dmat
           = PoolDmatResult(DmatOver(GroupDeltas(cpu_data[t]), 0, PoolDmatZero)).dmat

\* ------------------------------------------------------------------------
\* C17
\* ------------------------------------------------------------------------
\* the places <<group, position>> of cpu_data that hold the key h
PlacesOf(h) ==
  {p \in (DOMAIN cpu_data) \X Healpixs :
     (p[2] + 1) \in DOMAIN cpu_data[p[1]] /\ cpu_data[p[1]][p[2] + 1] = h}

\* C17: after the partition every healpix key of data lies in exactly one
\* group, the groups hold keys of data only, there are at most nproc groups,
\* and key number i of the dictionary's order is in group i % nproc.
C17_Partition ==
  (mode \in PoolModes /\ pc # "partition") =>
    /\ Len(cpu_data) <= nproc
    /\ \A h \in Keys : Cardinality(PlacesOf(h)) = 1
    /\ \A h \in Healpixs \ Keys : PlacesOf(h) = {}
    /\ \E keys \in KeyOrders : \A i \in DOMAIN keys :
         \E k \in DOMAIN cpu_data[((i - 1) % nproc) + 1] :
           cpu_data[((i - 1) % nproc) + 1][k] = keys[i]

\* three keys dealt to two groups
C17_Witness ==
  /\ mode = "pool_xi" /\ pc = "map" /\ nproc = 2
  /\ Cardinality(Keys) = 3
  /\ Len(cpu_data) = 2 /\ Len(cpu_data[1]) = 2 /\ Len(cpu_data[2]) = 1

\* ------------------------------------------------------------------------
\* C18
\* ------------------------------------------------------------------------
\* C18: a neighbour list that fill_neighs assigned holds no object with
\* the thingid of its delta, and every object of it is at an angle
\* strictly below ang_max.
C18_NeighboursDistinctAndNear ==
  (mode \in PoolModes) =>
    \A h \in Healpixs : \A i \in DOMAIN nb[h] :
      \A k \in DOMAIN nb[h][i].list :
        /\ nb[h][i].list[k].thingid # data[h][i].thingid
        /\ nb[h][i].list[k].sin_half < ang_max

\* the forest of Obj2 got Obj1 and not Obj2 itself, and a delta with Obj2
\* at exactly ang_max got Obj1 alone
C18_Witness ==
  /\ mode = "pool_xi"
  /\ \E h \in Healpixs :
       /\ data[h] # <<>> /\ data[h][1].thingid = 2
       /\ nb[h][1].is = "list" /\ Len(nb[h][1].list) = 1
       /\ nb[h][1].list[1].thingid = 1
  /\ \E h \in Healpixs :
       /\ data[h] # <<>> /\ data[h][1].sky[2].sin_half = ang_max
       /\ nb[h][1].is = "list" /\ Len(nb[h][1].list) = 1
       /\ nb[h][1].list[1].thingid = 1

\* ------------------------------------------------------------------------
\* C19
\* ------------------------------------------------------------------------
\* the pair of pixel i of f with the object o: whether it contributes to
\* dmat, its weight there, and its position with the data bin from the
\* original and the model bin from the absorber's geometry (.original_data)
\* and the other way round (.shifted_data)
MetalPosition(f, o, i, rp, rt, rp_abs, rt_abs) ==
  [contributes |->
     /\ MetalZ(f.log_lambda[i]) < f.z_qso
     /\ rp > r_par_min /\ rp < r_par_max /\ rt < r_trans_max
     /\ rp_abs > r_par_min /\ rp_abs < r_par_max /\ rt_abs < r_trans_max,
   weight |-> f.weights[i] * o.weights * ZWeightEvol(MetalZ(f.log_lambda[i])),
   original_data |-> ModelBin(rp_abs, rt_abs) + NumModelBins * DataBin(rp, rt),
   shifted_data |-> ModelBin(rp, rt) + NumModelBins * DataBin(rp_abs, rt_abs)]

MetalPositionAt(f, o, i) ==
  MetalPosition(f, o, i,
    RPar(f.r_comov[i], o.r_comov, o.cos_half),
    RTrans(f.dist_m[i], o.dist_m, o.sin_half),
    RPar(Cosmo(MetalZ(f.log_lambda[i])), o.r_comov, o.cos_half),
    RTrans(Cosmo(MetalZ(f.log_lambda[i])), o.dist_m, o.sin_half))

\* the weight the contributing pairs of f with the objects objs2 have at the
\* position idx
MetalWeightAt(f, objs2, idx, which) ==
  SumSeq([k \in DOMAIN objs2 |->
    SumSeq([i \in DOMAIN f.log_lambda |->
      IF MetalPositionAt(f, objs2[k], i).contributes
         /\ MetalPositionAt(f, objs2[k], i)[which] = idx
        THEN MetalPositionAt(f, objs2[k], i).weight ELSE 0])])

\* for a delta, the weight at each position of dmat of the pairs with the
\* neighbours its pass loops over
MetalPositions ==
  [d \in MetalDeltas |->
     [idx \in 0 .. (NumBins * NumModelBins - 1) |->
        [original_data |->
           MetalWeightAt(d, MetalLoopNeighbours(d, d.neighbours, <<>>), idx, "original_data"),
         shifted_data |->
           MetalWeightAt(d, MetalLoopNeighbours(d, d.neighbours, <<>>), idx, "shifted_data")]]]

\* a first pass of compute_metal_dmat that went through its neighbour loop
MetalPassed ==
  /\ mode = "compute_metal_dmat" /\ ndone = 1
  /\ Len(delta.log_lambda) = Len(delta.neighbours)
  /\ \E i \in DOMAIN delta.log_lambda : MetalZ(delta.log_lambda[i]) < delta.z_qso

\* C19 as stated: each contributing pair is entered into dmat at the data
\* bin of the shifted (absorber) geometry and the model bin of the original
\* geometry.
C19_DataShiftedModelOriginal ==
  (MetalPassed /\ pc = "loop") =>
    \A idx \in DOMAIN dmat : dmat[idx] = Whole(MetalPositions[delta][idx].shifted_data)

\* C19, amended: each contributing pair is entered into dmat at the data
\* bin of the original geometry and the model bin of the shifted (absorber)
\* geometry: after a first pass that raised nothing dmat holds at each
\* position the weight of the pairs with that position, and a pass that
\* raised has added to such positions only.
C19_DataOriginalModelShifted ==
  MetalPassed =>
    \A idx \in DOMAIN dmat :
      /\ (pc = "loop") => dmat[idx] = Whole(MetalPositions[delta][idx].original_data)
      /\ (dmat[idx] # Whole(0)) => MetalPositions[delta][idx].original_data > 0

\* a pass that entered a pair at a position where the exchanged geometries
\* would have put nothing
C19_Witness ==
  /\ MetalPassed /\ pc = "loop"
  /\ \E idx \in DOMAIN dmat :
       /\ dmat[idx] # Whole(0)
       /\ dmat[idx] = Whole(MetalPositions[delta][idx].original_data)
       /\ MetalPositions[delta][idx].shifted_data = 0

\* ------------------------------------------------------------------------
\* C20
\* ------------------------------------------------------------------------
\* the pixels of f whose contaminant-shifted redshift is below f.z_qso
PassingPixels(f) == {i \in DOMAIN f.log_lambda : MetalZ(f.log_lambda[i]) < f.z_qso}

\* a pass of the loop body of compute_metal_dmat
MetalPass == mode = "compute_metal_dmat" /\ ndone' = ndone + 1

\* C20 as stated: a pixel whose contaminant-shifted redshift is greater
\* than or equal to z_qso contributes to no accumulator, and a delta with no
\* pixel passing the cut contributes nothing: its pass changes none of the
\* values compute_metal_dmat returns.
C20_Step ==
  MetalPass =>
    /\ \A p \in added'.data \cup added'.model : p[1] \in PassingPixels(delta')
    /\ (PassingPixels(delta') = {}) =>
         /\ added' = NoneAdded
         /\ UNCHANGED <<dmat_vars, num_pairs, num_pairs_used>>
C20_BinnedStep ==
  MetalPass =>
    /\ \A p \in added'.data \cup added'.model : p[1] \in PassingPixels(delta')
    /\ (PassingPixels(delta') = {}) =>
         /\ added' = NoneAdded
         /\ UNCHANGED dmat_vars
         /\ num_pairs' = num_pairs + Len(delta'.neighbours)
         /\ num_pairs_used' = num_pairs_used
               + Cardinality({k \in DOMAIN rand' : rand'[k] > reject})
C20_MixedDelta ==
  /\ mode = "compute_metal_dmat" /\ ndone >= 1
  /\ PassingPixels(delta) # {} /\ PassingPixels(delta) # DOMAIN delta.log_lambda
  /\ added.data # {}
  /\ \E b \in DOMAIN weights_dmat : weights_dmat[b] > 0

\* ------------------------------------------------------------------------
\* C21
\* ------------------------------------------------------------------------
\* C21: empty input is never fatal in compute_xi.  A pass over a delta whose
\* neighbour list is empty, or none of whose pixel-object pairs lies inside
\* the window, leaves weights, xi, r_par, r_trans, z and num_pairs
\* unchanged, raises nothing, clears the delta's neighbours and leaves the
\* loop ready for the next delta.
C21_Step ==
  (mode = "compute_xi" /\ ndone' = ndone + 1
     /\ (Len(delta'.neighbours) = 0 \/ Inside[delta'].count = 0)) =>
    /\ UNCHANGED <<xi_vars, num_pairs>>
    /\ pc' = "loop"
    /\ neighbours' = "None"
C21_EmptyInputNotFatal == [][C21_Step]_vars

\* a delta with neighbours and no pair inside the window has been passed
\* after a delta that contributed, and the loop goes on
C21_Witness ==
  /\ mode = "compute_xi" /\ ndone = 2 /\ pc = "loop"
  /\ Len(delta.neighbours) > 0
  /\ Inside[delta].count = 0
  /\ neighbours = "None"
  /\ SumArr(weights) > 0

\* a delta with no neighbour has been passed after a delta that contributed
C21_NoNeighbours ==
  /\ mode = "compute_xi" /\ ndone = 2 /\ pc = "loop"
  /\ Len(delta.neighbours) = 0
  /\ SumArr(weights) > 0

\* ------------------------------------------------------------------------
\* C22
\* ------------------------------------------------------------------------
\* the normalisation step applied to an array r of quotients
NormaliseAgain(r, wts) ==
  [b \in DOMAIN r |-> IF wts[b] > 0 THEN FracDiv(r[b], wts[b]) ELSE r[b]]

\* the weights reset to 1: in every bin, or in the bins that have weight
WeightsReset(wts) ==
  {[b \in DOMAIN wts |-> 1], [b \in DOMAIN wts |-> IF wts[b] > 0 THEN 1 ELSE 0]}

NormalisedFields == {"xi", "r_par", "r_trans", "z"}

\* the weighted sum a quotient q stands for under the weight w
TimesWeight(q, w) == Frac(q[1] * w, q[2])

\* C22: the normalisation step of compute_xi applied a second time to the
\* returned arrays, with the weights reset to 1, leaves every value
\* unchanged; the returned value of a bin with weight is the accumulated sum
\* divided by the weight exactly once.
C22_NormaliseOnce ==
  (mode = "compute_xi" /\ pc = "done") =>
    /\ \A f \in NormalisedFields : \A ones \in WeightsReset(ret.weights) :
         NormaliseAgain(ret[f], ones) = ret[f]
    /\ \A b \in DOMAIN ret.weights :
         (ret.weights[b] > 0) =>
           /\ TimesWeight(ret.xi[b], ret.weights[b]) = Whole(xi[b])
           /\ TimesWeight(ret.r_par[b], ret.weights[b]) = Whole(r_par[b])
           /\ TimesWeight(ret.r_trans[b], ret.weights[b]) = Whole(r_trans[b])
           /\ TimesWeight(ret.z[b], ret.weights[b]) = Whole(z[b])

\* compute_xi returned a bin whose weight is not 1 and whose values the
\* division changed; dividing them by the weight again would change them
C22_Witness ==
  /\ mode = "compute_xi" /\ pc = "done"
  /\ \E b \in DOMAIN ret.weights :
       /\ ret.weights[b] > 1
       /\ ret.xi[b] # Whole(xi[b])
       /\ NormaliseAgain(ret.xi, ret.weights)[b] # ret.xi[b]
       /\ NormaliseAgain(ret.xi, [c \in DOMAIN ret.weights |-> 1])[b] = ret.xi[b]

\* ------------------------------------------------------------------------
\* C23
\* ------------------------------------------------------------------------
\* the number of draws above reject
Retained(draws) == Cardinality({k \in DOMAIN draws : draws[k] > reject})

\* C23: the num_pairs compute_dmat returns is the sum of the lengths of the
\* neighbour lists of all the deltas passed, those with every neighbour
\* rejected included, and num_pairs_used is the number of neighbours the
\* draws retained: each pass adds the length of the delta's neighbour list
\* to num_pairs and the number of retained neighbours to num_pairs_used, and
\* the return hands both out as they are.
C23_Step ==
  (mode = "compute_dmat") =>
    /\ (ndone' = ndone + 1) =>
         /\ num_pairs' = num_pairs + Len(delta'.neighbours)
         /\ num_pairs_used' = num_pairs_used + Retained(rand')
    /\ (pc' = "done") =>
         /\ ret'.num_pairs = num_pairs
         /\ ret'.num_pairs_used = num_pairs_used
C23_PairsSeenAndUsed == [][C23_Step]_vars

\* ------------------------------------------------------------------------
\* C24
\* ------------------------------------------------------------------------
\* C24: when compute_dmat or compute_metal_dmat returns, the neighbours
\* field of every delta it passed has been set to None, on every path
\* through the loop body: after each pass that raised nothing the field of
\* the delta just passed is None, and it is None at the return.
C24_NeighboursCleared ==
  (mode \in {"compute_dmat", "compute_metal_dmat"} /\ ndone >= 1
     /\ pc \in {"loop", "done"}) =>
    neighbours = "None"

\* ------------------------------------------------------------------------
\* C25
\* ------------------------------------------------------------------------
\* the pairs of d inside the window that have the data bin b
SurvivingAt(d, b) ==
  {k \in DOMAIN AllPairs(d, d.neighbours) :
     StrictlyInside(AllPairs(d, d.neighbours)[k])
       /\ AllPairs(d, d.neighbours)[k].bins = b}
WeightedAt(d, b) ==
  {k \in SurvivingAt(d, b) : AllPairs(d, d.neighbours)[k].weights12 > 0}

\* the call returned and its bincounts have been added to the accumulators
PairsAdded == mode = "compute_xi_forest_pairs" /\ pc = "returned" /\ ndone = 1

\* C25 as stated: the num_pairs entry of a data bin is the number of the
\* surviving pixel-object pairs binned there, whatever their weights.
C25_RawCount ==
  PairsAdded => \A b \in DOMAIN num_pairs : num_pairs[b] = Cardinality(SurvivingAt(delta, b))

\* C25, amended: the num_pairs entry of a data bin is the number of the
\* surviving pixel-object pairs binned there whose weight weights12 is
\* positive; a surviving pair of weight 0 is not counted, and the size of a
\* positive weight does not matter.
C25_PositiveWeightCount ==
  PairsAdded => \A b \in DOMAIN num_pairs : num_pairs[b] = Cardinality(WeightedAt(delta, b))

\* a bin with a counted pair of weight above 1 and a surviving pair of
\* weight 0 that is not counted
C25_Witness ==
  /\ PairsAdded
  /\ \E b \in DOMAIN num_pairs :
       /\ num_pairs[b] >= 1
       /\ weights[b] > num_pairs[b]
       /\ Cardinality(SurvivingAt(delta, b)) > num_pairs[b]

\* ------------------------------------------------------------------------
\* C26
\* ------------------------------------------------------------------------
\* the diagram of two distinct surviving pairs a and b, by what they share
WickDiagram(a, b) ==
  IF a.j = b.j THEN "T2" ELSE IF a.i = b.i THEN "T3" ELSE "T4"

\* the covariance term of the two pairs in their diagram
WickTerm(f, nbs, a, b) ==
  IF a.j = b.j
    THEN C1d1(f, a.i, b.i) * ZEvol(nbs[a.j].z_qso) * ZEvol(nbs[a.j].z_qso)
  ELSE IF a.i = b.i
    THEN ((a.weights12 * b.weights12) \div f.weights[a.i]) * ZEvol(f.z[a.i])
  ELSE C1d1(f, a.i, b.i) * ZEvol(nbs[a.j].z_qso) * ZEvol(nbs[b.j].z_qso)

\* how often the two symmetric entries [p1, p2] and [p2, p1] lie at off
WickHits(p1, p2, off) ==
  (IF p1 * NumBins + p2 = off THEN 1 ELSE 0) + (IF p2 * NumBins + p1 = off THEN 1 ELSE 0)

\* what the surviving pairs prs of f put at off in the diagram t
WickOffDiagonal(f, nbs, prs, t, off) ==
  SumSeq([n \in 1 .. (Len(prs) * Len(prs)) |->
    IF ((n - 1) \div Len(prs)) < ((n - 1) % Len(prs))
       /\ WickDiagram(prs[((n - 1) \div Len(prs)) + 1], prs[((n - 1) % Len(prs)) + 1]) = t
      THEN WickTerm(f, nbs, prs[((n - 1) \div Len(prs)) + 1], prs[((n - 1) % Len(prs)) + 1])
             * WickHits(prs[((n - 1) \div Len(prs)) + 1].bins,
                        prs[((n - 1) % Len(prs)) + 1].bins, off)
      ELSE 0])
WickDiagonal(f, prs, off) ==
  SumSeq([k \in DOMAIN prs |->
    IF prs[k].bins * NumBins + prs[k].bins = off
      THEN ((prs[k].weights12 * prs[k].weights12) \div f.weights[prs[k].i]) * ZEvol(f.z[prs[k].i])
      ELSE 0])

WickExpected ==
  [d \in WickDeltas |->
     [off \in 0 .. (NumBins * NumBins - 1) |->
        [T1 |-> WickDiagonal(d, WickPairs(d, d.neighbours), off),
         T2 |-> WickOffDiagonal(d, d.neighbours, WickPairs(d, d.neighbours), "T2", off),
         T3 |-> WickOffDiagonal(d, d.neighbours, WickPairs(d, d.neighbours), "T3", off),
         T4 |-> WickOffDiagonal(d, d.neighbours, WickPairs(d, d.neighbours), "T4", off)]]]

\* a first call, of fill_wickT1234, that found surviving pairs
WickFirstCall ==
  /\ mode = "fill_wickT" /\ ndone = 1
  /\ \E b \in DOMAIN wick["wAll"] : wick["wAll"][b] > 0

\* C26: in fill_wickT1234 every unordered pair of distinct surviving pairs
\* contributes to exactly one of T2, T3, T4: to T2 iff the two share the
\* object, to T3 iff they share the pixel and not the object, to T4 iff
\* they share neither; T1 receives one contribution per surviving pair, on
\* its diagonal.  After a first call that raised nothing each of the four
\* matrices holds the terms of its diagram; a call that raised has added
\* some of them.
C26_DiagramsPartition ==
  WickFirstCall =>
    /\ \A t \in {"T1", "T2", "T3", "T4"} : \A off \in DOMAIN wick[t] :
         /\ wick[t][off] <= WickExpected[delta][off][t]
         /\ (pc = "loop") => wick[t][off] = WickExpected[delta][off][t]
    /\ \A p1 \in Bins, p2 \in Bins : (p1 # p2) => wick["T1"][p1 * NumBins + p2] = 0

\* a call that filled all four diagrams
C26_Witness ==
  /\ WickFirstCall /\ pc = "loop"
  /\ \A t \in {"T1", "T2", "T3", "T4"} : \E off \in DOMAIN wick[t] : wick[t][off] > 0


\* ------------------------------------------------------------------------
\* C27: when cfWick is None or max_diagram <= 4, wickT never calls
\* fill_wickT56 and gives no error of its own: T5 and T6 stay zero, and a
\* pass over a forest leaves wAll, num_pairs_wick, T1..T4 and the counters as
\* fill_wickT1234 alone makes them. The only exception that can escape is
\* the IndexError of fill_wickT1234 itself, when indices are checked and a
\* pair has its bin past the last one.
\* ------------------------------------------------------------------------
WickTLowOrder == mode = "wickT" /\ (~cfWick_given \/ max_diagram <= 4)
WickTPass == mode = "wickT" /\ pc = "loop" /\ ndone' = ndone + 1
WickTAccepted == MaskSum(RandomMask(rand')) = 1
WickT1234Alone == WickApply(wick, WickT1234Table[delta'], 1, bounds_checked)

C27_Pass ==
  /\ num_pairs' = num_pairs + 1
  /\ num_pairs_used' = num_pairs_used + MaskSum(RandomMask(rand'))
  /\ IF WickTAccepted /\ Len(delta'.neighbours) # 0
       THEN /\ wick' = WickT1234Alone.mem
            /\ (pc' = "raised") = WickT1234Alone.raised
            /\ (pc' = "raised") => bounds_checked
       ELSE wick' = wick /\ pc' = "loop"

C27_Step ==
  WickTLowOrder =>
    /\ calls' = <<>>
    /\ wick'.T5 = WickZero.T5 /\ wick'.T6 = WickZero.T6
    /\ WickTPass => C27_Pass

C27_WitnessLowDiagram ==
  /\ mode = "wickT" /\ pc = "done"
  /\ cfWick_given /\ max_diagram = 4
  /\ counter > 0
  /\ Len(delta.neighbours) = 2
  /\ Len(dneighs) = 1 /\ dneighs[1].neighbours = delta.neighbours
  /\ ret.wick.T2 # WickZero.T2
  /\ calls = <<>>


\* ------------------------------------------------------------------------
\* C30: with cfWick given and max_diagram > 4, every call of fill_wickT56
\* that wickT makes has its arguments t_ang12, t_r2, t_w2 and t_thingid2
\* assigned, for the forest d1 of the pass, and no exception escapes that
\* fill_wickT1234 did not raise
\* ------------------------------------------------------------------------
WickTHighOrder == mode = "wickT" /\ cfWick_given /\ max_diagram > 4
CallAssigned(c) == c.t_thingid2.is = "list"
CallOfForest(c, d1) ==
  \A k \in DOMAIN c.t_thingid2.list :
    \E n \in DOMAIN d1.neighbours : d1.neighbours[n].thingid = c.t_thingid2.list[k]

C30_ArgumentsAssigned ==
  WickTHighOrder => \A k \in DOMAIN calls : CallAssigned(calls[k])

\* C30, the part that holds: for max_diagram = 5 the arguments of every
\* call that a pass makes are assigned, and hold objects of the forest of
\* that pass
C30_FiveStep ==
  (WickTHighOrder /\ max_diagram = 5) =>
    \A k \in DOMAIN calls' :
      k > Len(calls) => CallAssigned(calls'[k]) /\ CallOfForest(calls'[k], delta')

C30_AssignedForFive == [][C30_FiveStep]_vars

\* C30: a call for max_diagram = 5 has been made
C30_CallForFive ==
  /\ WickTHighOrder /\ max_diagram = 5
  /\ calls # <<>> /\ wick.T5 # WickZero.T5


\* ------------------------------------------------------------------------
\* C28: xcf1d handles every delta, those with an object on their line of
\* sight included, and returns with the fields of each delta as they were
\* before the call
\* ------------------------------------------------------------------------
OnLineOfSight(d) == {q \in Objs : q.thingid = d.thingid}
Xcf1dHandled == mode = "xcf1d" /\ ndone > 0

C28_PassedOverKept ==
  (Xcf1dHandled /\ pc # "raised") =>
    /\ delta \in Xcf1dDeltas
    /\ OnLineOfSight(delta) = {}


\* ------------------------------------------------------------------------
\* C29: for a delta with ascending r_comov and an object of another line
\* of sight at an angle below ang_max, if some pixel of the delta has its
\* r_par to the object strictly inside (r_par_min, r_par_max), the two tests
\* of the prefilter pass; the object is then among delta.neighbours unless the
\* redshift cut, which is no part of the prefilter, removes it
\* ------------------------------------------------------------------------
RParAt(d, o, i) == RPar(d.r_comov[i], o.r_comov, d.sky[o.thingid].cos_half)
PixelInRParWindow(d, o) ==
  \E i \in DOMAIN d.r_comov : r_par_min < RParAt(d, o, i) /\ RParAt(d, o, i) < r_par_max
PrefilterPasses(d, o) ==
  RParAt(d, o, 1) < r_par_max /\ RParAt(d, o, Len(d.r_comov)) > r_par_min
InZCut(d, o) ==
  d.z[Len(d.z)] + o.z_qso >= 2 * z_cut_min /\ d.z[Len(d.z)] + o.z_qso < 2 * z_cut_max
Candidate(d, o) == o.thingid # d.thingid /\ AngBelowMax(d.sky[o.thingid])
AmongNeighbours(o) == \E k \in DOMAIN neighbours : neighbours[k].thingid = o.thingid
NeighsFilled == mode = "fill_neighs" /\ pc = "done"

C29_PrefilterConservative ==
  NeighsFilled =>
    \A o \in Objs :
      (Candidate(delta, o) /\ PixelInRParWindow(delta, o)) =>
        /\ PrefilterPasses(delta, o)
        /\ InZCut(delta, o) => AmongNeighbours(o)

\* C29 witness: fill_neighs has kept an object that only one of the two
\* pixels of the delta pairs with inside the window
C29_Witness ==
  /\ NeighsFilled
  /\ Len(delta.r_comov) = 2
  /\ \E o \in Objs :
       /\ Candidate(delta, o) /\ AmongNeighbours(o)
       /\ PixelInRParWindow(delta, o)
       /\ \E i \in DOMAIN delta.r_comov :
            ~(r_par_min < RParAt(delta, o, i) /\ RParAt(delta, o, i) < r_par_max)

\* C29: the prefilter has dropped an object no pixel pairs with inside the
\* window
C29_Dropped ==
  /\ NeighsFilled
  /\ \E o \in Objs :
       /\ Candidate(delta, o) /\ InZCut(delta, o)
       /\ ~PrefilterPasses(delta, o) /\ ~AmongNeighbours(o)

\* C29: the redshift cut, which follows the prefilter, has removed an object
\* that passed the prefilter with a pixel inside the window
C29_RedshiftCutDrops ==
  /\ NeighsFilled
  /\ \E o \in Objs :
       /\ Candidate(delta, o) /\ PixelInRParWindow(delta, o)
       /\ ~InZCut(delta, o) /\ ~AmongNeighbours(o)

=============================================================================
